---- MODULE Spec2Model ----
(***************************************************************************)
(* Webhook-driven order reconciliation of the payment backend.             *)
(*                                                                         *)
(* The repository holds several revisions of the same server.  Each        *)
(* revision is modelled by its own specification over one shared store:    *)
(*                                                                         *)
(*   SpecSnapSeq, SpecSnap      snapshot-based revision (part_005, 290-531)*)
(*   SpecSnapIds                the same, order ids of create-order        *)
(*   SpecSnapNoId               the same, payload without order id         *)
(*   SpecSnapLive               the same, redelivery until 200             *)
(*   SpecPaidAt, SpecPaidAtAll, paid_at-guarded revision (part_005, 1-288) *)
(*     SpecPaidAtRecord                                                    *)
(*   Spec009Seq, Spec009,       cart_json revision (part_009)              *)
(*     Spec009Amount, Spec009Record                                        *)
(*   Spec003Seq, Spec003,       ledger-gated revision (part_003)           *)
(*     Spec003Sig                                                          *)
(*   Spec001                    pre-recorded revision of part_001          *)
(*   Spec000, Spec000Verify     status-mirroring revision (part_000)       *)
(*   SpecIndex1                 first revision of src/index.js             *)
(*   SpecIndex2, SpecIndex2Sig  second revision of src/index.js            *)
(*   Spec008Seq, Spec008,       pre-recorded revision (part_008)           *)
(*     Spec008Legacy                                                       *)
(*                                                                         *)
(* A request handler is a sequence of atomic steps, one per awaited store  *)
(* or gateway call; the synchronous code between two awaits belongs to the *)
(* step of the call that follows or precedes it.  Handlers of different    *)
(* requests interleave at every await.                                     *)
(***************************************************************************)
EXTENDS Integers, Sequences, FiniteSets, TLC

VARIABLES
  orders,          \* table orders:         order id -> row or NoRow
  order_items,     \* table order_items:    order id -> rows, in insertion order
  pending_orders,  \* table pending_orders: order id -> snapshot or NoRow
  payments,        \* table payments / order_payments: rows per cf_payment_id
  cf_orders,       \* orders known to the gateway: order id -> cart or NoRow
  co,              \* create-order requests: order id -> position of the handler
                   \* and the cart it holds until the gateway has it
  hs,              \* webhook deliveries and polls: sequence of handler records
  replied,         \* the last request answered before any store call: its record
  nfail,           \* store operations that have failed so far
  clock,           \* Date.now(), read by the handlers that stamp paid_at
  env              \* process.env and the store schema, fixed for a run

vars == <<orders, order_items, pending_orders, payments, cf_orders, co, hs,
          replied, nfail, clock, env>>

----------------------------------------------------------------------------
(* Bounds *)

MaxDeliveries == 3      \* webhook deliveries and polls in one run
MaxFails == 2           \* store operations that may fail in one run
MaxCalls == 2           \* webhook deliveries, polls and reconcile runs in one run
MaxSigLen == 2          \* characters of a signature

(* Program constants *)

FLAT_ITEM_DISCOUNT == 5

----------------------------------------------------------------------------
(* Values *)

\* a table maps a key to <<row>>, or to NoRow when it holds no row of the key
NoRow == <<>>
Row(r) == <<r>>
NoSig == <<>>          \* a header that the request does not carry
Null == "null"
NoTime == 0            \* a paid_at that is null; the clock starts after it

OrderIds == {"order_1"}
SnapPaymentIds == {"pay_1"}

LineA == [item |-> "A", qty |-> 2, price |-> 50]
LineB == [item |-> "B", qty |-> 1, price |-> 3]

\* carts a client may submit to create-order: non-empty arrays of lines
Carts == {<<LineA>>, <<LineA, LineB>>}

ClientSecret == "client_secret"      \* process.env.CASHFREE_CLIENT_SECRET
WebhookSecret == "webhook_secret"    \* process.env.CASHFREE_WEBHOOK_SECRET
SigKinds == {"valid", "wrongkey", "tampered", "missing"}

Max(a, b) == IF a >= b THEN a ELSE b

----------------------------------------------------------------------------
(* Requests of the gateway *)

\* the raw body of a notification, as the bytes that are signed
Raw(body) == body.order_id \o "|" \o body.cf_payment_id \o "|" \o body.payment_status

\* Base64(HMAC-SHA256(key, msg)): an injective function of key and message
Hmac(key, msg) == <<key, msg>>

OtherStatus(st) == IF st = "SUCCESS" THEN "FAILED" ELSE "SUCCESS"

\* the signature header of a request with timestamp ts and the given body.
\* kind names who signed: the gateway, over timestamp + body (valid);
\* somebody without the key (wrongkey); the gateway, but for another body
\* (tampered); a signer that leaves the timestamp out (bodyonly); nobody.
Sign(kind, key, ts, body) ==
  CASE kind = "valid" -> Hmac(key, ts \o Raw(body))
    [] kind = "wrongkey" -> Hmac("attacker", ts \o Raw(body))
    [] kind = "tampered" ->
         Hmac(key, ts \o Raw([body EXCEPT !.payment_status = OtherStatus(@)]))
    [] kind = "bodyonly" -> Hmac(key, Raw(body))
    [] OTHER -> NoSig

\* a webhook request: the timestamp and signature headers and the body
Request(o, pid, st, kind, key) ==
  LET body == [order_id |-> o, cf_payment_id |-> pid, payment_status |-> st]
      ts == "t1"
  IN [timestamp |-> ts, body |-> body, signature |-> Sign(kind, key, ts, body)]

----------------------------------------------------------------------------
(* Handler records *)

\* a handler: the request, the locals read from it, the position, the
\* snapshot's cart once fetched, the rows its write to orders changed,
\* whether that update came back with an error, and the response once sent;
\* snap records whether the order's pending snapshot was in the store when
\* the request came
Handler(kind, req, o, pid, st) ==
  [kind |-> kind, req |-> req, pc |-> "start", o |-> o, pid |-> pid,
   status |-> st, resp |-> 0, cart |-> <<>>, rows |-> 0,
   err |-> FALSE, snap |-> pending_orders[o] # NoRow]

Running(i) == hs[i].pc # "done"

Goto(i, pc) == hs' = [hs EXCEPT ![i].pc = pc]

Reply(i, code) == hs' = [hs EXCEPT ![i].pc = "done", ![i].resp = code]

\* a store operation fails: the call returns an error and changes nothing
Fails == nfail < MaxFails /\ nfail' = nfail + 1

NoFail == nfail' = nfail

----------------------------------------------------------------------------
(* Snapshot-based revision: create-order *)

SnapCreateSession ==
  \E o \in OrderIds, cart \in Carts :
    /\ cf_orders[o] = NoRow
    /\ co[o].pc = "none"
    /\ cf_orders' = [cf_orders EXCEPT ![o] = cart]
    /\ co' = [co EXCEPT ![o].pc = "snapshot"]
    /\ UNCHANGED <<orders, order_items, pending_orders, payments, hs, replied,
                   nfail, clock, env>>

SnapWriteSnapshot ==
  \E o \in OrderIds :
    /\ co[o].pc = "snapshot"
    /\ co' = [co EXCEPT ![o].pc = "done"]
    /\ \/ /\ pending_orders' = [pending_orders EXCEPT ![o] = Row([id |-> o, cart |-> cf_orders[o]])]
          /\ NoFail
       \/ /\ Fails
          /\ UNCHANGED pending_orders
    /\ UNCHANGED <<orders, order_items, payments, cf_orders, hs, replied, clock, env>>

----------------------------------------------------------------------------
(* Snapshot-based revision: webhook *)

\* expected !== signature, with expected the HMAC of timestamp + rawBody
SnapSignatureOk(req) ==
  /\ req.signature # NoSig
  /\ Hmac(ClientSecret, req.timestamp \o Raw(req.body)) = req.signature

\* cart.map(...): one row of order_items per line of the cart
ItemsPayload_None(o, cart) == <<>>

ItemsPayload(o, cart) ==
  [k \in 1..Len(cart) |->
     [order_id |-> o, item_id |-> cart[k].item, qty |-> cart[k].qty,
      price |-> Max(0, cart[k].price - FLAT_ITEM_DISCOUNT)]]

\* order_items.insert(rows): all rows or none; a unique (order_id, item_id)
\* constraint, where the schema has one, rejects a second row of an item
InsertItemsOk(o, rows) ==
  env.items_unique =>
    /\ \A k \in DOMAIN rows : \A r \in DOMAIN order_items[o] :
         order_items[o][r].item_id # rows[k].item_id
    /\ \A k, l \in DOMAIN rows : rows[k].item_id = rows[l].item_id => k = l

NeedsReconcile_Always(count) == TRUE

NeedsReconcile_Never(count) == FALSE

\* (count || 0) === 0: the order has no line item yet
NeedsReconcile(count) == count = 0

\* a notification for an order of the gateway, as the webhook receives it;
\* the status comes in the gateway's spelling or in lower case
SnapRequests ==
  {Request(o, pid, st, kind, ClientSecret) :
     o \in {x \in OrderIds : cf_orders[x] # NoRow}, pid \in SnapPaymentIds,
     st \in {"SUCCESS", "FAILED", "success"}, kind \in SigKinds}

SnapHandler(req) ==
  Handler("webhook", req, req.body.order_id, req.body.cf_payment_id,
          req.body.payment_status)

\* a request answered before any store call: 400 for a signature that is
\* missing or differs from the expected one, 200 for a status other than SUCCESS
SnapReject ==
  /\ \E req \in SnapRequests :
       /\ ~SnapSignatureOk(req) \/ req.body.payment_status # "SUCCESS"
       /\ replied' = Row([SnapHandler(req) EXCEPT
                           !.pc = "done",
                           !.resp = IF ~SnapSignatureOk(req) THEN 400 ELSE 200])
  /\ UNCHANGED <<orders, order_items, pending_orders, payments, cf_orders, co,
                 hs, nfail, clock, env>>

\* a verified SUCCESS notification reaches the store; serial: only when no
\* other delivery is running
SnapAccept(serial) ==
  /\ Len(hs) < MaxDeliveries
  /\ serial => \A i \in DOMAIN hs : ~Running(i)
  /\ \E req \in SnapRequests :
       /\ SnapSignatureOk(req)
       /\ req.body.payment_status = "SUCCESS"
       /\ hs' = Append(hs, [SnapHandler(req) EXCEPT !.pc = "payUpsert"])
  /\ UNCHANGED <<orders, order_items, pending_orders, payments, cf_orders, co,
                 replied, nfail, clock, env>>

SnapPayUpsert ==
  \E i \in DOMAIN hs :
    /\ hs[i].pc = "payUpsert"
    /\ \/ /\ payments' = [payments EXCEPT ![hs[i].pid] = 1]   \* insert, or the row that is there
          /\ Goto(i, "selOrder")
          /\ NoFail
       \/ /\ Fails
          /\ Reply(i, 500)
          /\ UNCHANGED payments
    /\ UNCHANGED <<orders, order_items, pending_orders, cf_orders, co, replied, clock, env>>

\* the error of this select is not read: a failed select looks like no row
SnapSelectOrder ==
  \E i \in DOMAIN hs :
    /\ hs[i].pc = "selOrder"
    /\ \/ /\ NoFail
          /\ Goto(i, IF orders[hs[i].o] # NoRow THEN "count" ELSE "fetchPending")
       \/ /\ Fails
          /\ Goto(i, "fetchPending")
    /\ UNCHANGED <<orders, order_items, pending_orders, payments, cf_orders, co,
                   replied, clock, env>>

SnapCountItems ==
  \E i \in DOMAIN hs :
    /\ hs[i].pc = "count"
    /\ \/ /\ NoFail
          /\ IF NeedsReconcile(Len(order_items[hs[i].o]))
             THEN Goto(i, "recFetch")
             ELSE Reply(i, 200)
       \/ /\ Fails
          /\ Reply(i, 500)
    /\ UNCHANGED <<orders, order_items, pending_orders, payments, cf_orders, co,
                   replied, clock, env>>

\* both fetches of the snapshot: next is the position after a row was found
SnapFetch(from, next) ==
  \E i \in DOMAIN hs :
    /\ hs[i].pc = from
    /\ \/ /\ NoFail
          /\ IF pending_orders[hs[i].o] = NoRow
             THEN Reply(i, 500)
             ELSE hs' = [hs EXCEPT ![i].pc = next,
                                   ![i].cart = pending_orders[hs[i].o][1].cart]
       \/ /\ Fails
          /\ Reply(i, 500)
    /\ UNCHANGED <<orders, order_items, pending_orders, payments, cf_orders, co,
                   replied, clock, env>>

SnapRecFetch == SnapFetch("recFetch", "recItems")

SnapFetchPending == SnapFetch("fetchPending", "insOrder")

SnapInsertOrder ==
  \E i \in DOMAIN hs :
    /\ hs[i].pc = "insOrder"
    /\ \/ /\ orders[hs[i].o] = NoRow
          /\ orders' = [orders EXCEPT ![hs[i].o] =
                          Row([status |-> "Preparing", paid_at |-> NoTime, payment_id |-> Null])]
          /\ hs' = [hs EXCEPT ![i].pc = "insItems", ![i].rows = 1]
          /\ NoFail
       \/ /\ orders[hs[i].o] # NoRow      \* primary key violation
          /\ Reply(i, 500)
          /\ NoFail
          /\ UNCHANGED orders
       \/ /\ Fails
          /\ Reply(i, 500)
          /\ UNCHANGED orders
    /\ UNCHANGED <<order_items, pending_orders, payments, cf_orders, co, replied, clock, env>>

\* both inserts of the line items
SnapItems(from) ==
  \E i \in DOMAIN hs :
    /\ hs[i].pc = from
    /\ LET rows == ItemsPayload(hs[i].o, hs[i].cart)
       IN \/ /\ InsertItemsOk(hs[i].o, rows)
             /\ order_items' = [order_items EXCEPT ![hs[i].o] = @ \o rows]
             /\ Goto(i, "delete")
             /\ NoFail
          \/ /\ ~InsertItemsOk(hs[i].o, rows)
             /\ Reply(i, 500)
             /\ NoFail
             /\ UNCHANGED order_items
          \/ /\ Fails
             /\ Reply(i, 500)
             /\ UNCHANGED order_items
    /\ UNCHANGED <<orders, pending_orders, payments, cf_orders, co, replied, clock, env>>

SnapRecItems == SnapItems("recItems")

SnapInsertItems == SnapItems("insItems")

\* the result of the delete is not read
SnapDeletePending ==
  \E i \in DOMAIN hs :
    /\ hs[i].pc = "delete"
    /\ Reply(i, 200)
    /\ \/ /\ pending_orders' = [pending_orders EXCEPT ![hs[i].o] = NoRow]
          /\ NoFail
       \/ /\ Fails
          /\ UNCHANGED pending_orders
    /\ UNCHANGED <<orders, order_items, payments, cf_orders, co, replied, clock, env>>

----------------------------------------------------------------------------
(* Specifications of the snapshot-based revision *)

EmptyStore ==
  /\ orders = [o \in OrderIds |-> NoRow]
  /\ order_items = [o \in OrderIds |-> <<>>]
  /\ pending_orders = [o \in OrderIds |-> NoRow]
  /\ payments = [p \in SnapPaymentIds |-> 0]      \* rows per cf_payment_id
  /\ cf_orders = [o \in OrderIds |-> NoRow]
  /\ co = [o \in OrderIds |-> [pc |-> "none", cart |-> <<>>]]
  /\ hs = <<>>
  /\ replied = <<>>
  /\ nfail = 0
  /\ clock = 1

SnapInit ==
  /\ EmptyStore
  /\ env \in [webhook_secret : {TRUE}, items_unique : BOOLEAN]

SnapSteps ==
  \/ SnapCreateSession
  \/ SnapWriteSnapshot
  \/ SnapPayUpsert
  \/ SnapSelectOrder
  \/ SnapCountItems
  \/ SnapRecFetch
  \/ SnapRecItems
  \/ SnapFetchPending
  \/ SnapInsertOrder
  \/ SnapInsertItems
  \/ SnapDeletePending

SnapSeqNext == SnapReject \/ SnapAccept(TRUE) \/ SnapSteps

SnapNext == SnapAccept(FALSE) \/ SnapSteps

\* every request; the deliveries that reach the store run one after the other
SpecSnapSeq == SnapInit /\ [][SnapSeqNext]_vars

\* the deliveries that reach the store, interleaved at every await
SpecSnap == SnapInit /\ [][SnapNext]_vars

----------------------------------------------------------------------------
(* Claims about the snapshot-based revision *)

Done(i) == hs[i].pc = "done"

\* a delivery of a verified SUCCESS notification for o has returned 200
Acked(o) == \E i \in DOMAIN hs : hs[i].o = o /\ Done(i) /\ hs[i].resp = 200

\* the line items the webhook derives from the cart submitted for o
CartItems(o) == ItemsPayload(o, cf_orders[o])

C1_Inv ==
  \A o \in OrderIds :
    /\ Len(order_items[o]) <= Len(cf_orders[o])
    /\ Acked(o) => orders[o] # NoRow /\ order_items[o] = CartItems(o)

C1_Step ==
  \A o \in OrderIds :
    Acked(o) => orders'[o] = orders[o] /\ order_items'[o] = order_items[o]

\* C1: with the deliveries of a SUCCESS notification run one after the other
\* and store operations allowed to fail, an order (one row per id, orders
\* being keyed by id) never has more order_items rows than its cart has
\* lines; once a delivery has returned 200 the order row exists with exactly
\* the cart's lines, and no later step changes the order or its line items.
C1_Idempotent == [](C1_Inv) /\ [][C1_Step]_vars

\* C1 witness: after a failed store operation two deliveries have returned
\* 200 and the order holds exactly its cart's lines
C1_Witness ==
  /\ nfail > 0
  /\ Len(hs) >= 2 /\ Done(1) /\ Done(2)
  /\ hs[Len(hs)].resp = 200 /\ hs[Len(hs) - 1].resp = 200
  /\ order_items["order_1"] = CartItems("order_1")
  /\ Len(order_items["order_1"]) = 2

\* C2: when two or more deliveries of the same SUCCESS notification for an
\* order whose snapshot exists have all run to their end, in any
\* interleaving and with no store operation failing, orders holds the row
\* of the order and order_items holds each cart line exactly once.
C2_ConcurrentOnce ==
  \A o \in OrderIds :
    LET ds == {i \in DOMAIN hs : hs[i].o = o}
    IN (/\ Cardinality(ds) >= 2
        /\ \A i \in ds : Done(i) /\ hs[i].snap
        /\ nfail = 0)
       => orders[o] # NoRow /\ order_items[o] = CartItems(o)

\* C8: a request whose signature header is missing or differs from the
\* expected signature is answered with 200.
C8_InvalidSignatureAcked ==
  \A k \in DOMAIN replied :
    ~SnapSignatureOk(replied[k].req) => replied[k].resp = 200

\* C9: once a SUCCESS delivery for an order has returned 200, pending_orders
\* holds no row for the order, and every SUCCESS delivery for it that comes
\* afterwards returns 200.
C9_SnapshotConsumed ==
  \A o \in OrderIds :
    /\ Acked(o) => pending_orders[o] = NoRow
    /\ \A i, j \in DOMAIN hs :
         (i < j /\ hs[i].o = o /\ hs[j].o = o /\ Done(j) /\ hs[i].resp = 200)
           => hs[j].resp = 200

----------------------------------------------------------------------------
(* paid_at-guarded revision (part_005, lines 1-288): create-order *)

\* statuses as the gateway sends them, in a webhook or as the answer to a poll
Tokens == {"paid", "AUTHORIZED", "FAILED"}

\* String.prototype.toUpperCase on the tokens
ToUpper(t) == IF t = "paid" THEN "PAID" ELSE t

PaCreateSession ==
  \E o \in OrderIds, cart \in Carts :
    /\ cf_orders[o] = NoRow
    /\ co[o].pc = "none"
    /\ cf_orders' = [cf_orders EXCEPT ![o] = cart]
    /\ co' = [co EXCEPT ![o].pc = "order"]
    /\ UNCHANGED <<orders, order_items, pending_orders, payments, hs, replied,
                   nfail, clock, env>>

\* upsert on conflict id: the columns given are written, the others kept;
\* the result of the call is not read
PaUpsertOrder ==
  \E o \in OrderIds :
    /\ co[o].pc = "order"
    /\ co' = [co EXCEPT ![o].pc = "items"]
    /\ \/ /\ orders' = [orders EXCEPT ![o] =
                IF @ = NoRow
                THEN Row([status |-> "Payment Active", paid_at |-> NoTime,
                          payment_id |-> Null])
                ELSE Row([@[1] EXCEPT !.status = "Payment Active"])]
          /\ NoFail
       \/ Fails /\ UNCHANGED orders
    /\ UNCHANGED <<order_items, pending_orders, payments, cf_orders, hs, replied,
                   clock, env>>

PaItemsPayload(o, cart) ==
  [k \in 1..Len(cart) |->
     [order_id |-> o, item_id |-> cart[k].item, qty |-> cart[k].qty,
      price |-> cart[k].price]]

\* upsert on conflict (order_id, item_id): a row of the same item is
\* replaced in place, the other rows are added
UpsertItems(old, rows) ==
  LET same(r, q) == r.item_id = q.item_id
      repl(r) == IF \E k \in DOMAIN rows : same(rows[k], r)
                 THEN rows[CHOOSE k \in DOMAIN rows : same(rows[k], r)]
                 ELSE r
      fresh(q) == \A k \in DOMAIN old : ~same(old[k], q)
  IN [k \in DOMAIN old |-> repl(old[k])] \o SelectSeq(rows, fresh)

\* the session id goes to the client when both upserts have been awaited
PaUpsertItems ==
  \E o \in OrderIds :
    /\ co[o].pc = "items"
    /\ co' = [co EXCEPT ![o].pc = "done"]
    /\ \/ /\ order_items' = [order_items EXCEPT ![o] =
                               UpsertItems(@, PaItemsPayload(o, cf_orders[o]))]
          /\ NoFail
       \/ Fails /\ UNCHANGED order_items
    /\ UNCHANGED <<orders, pending_orders, payments, cf_orders, hs, replied,
                   clock, env>>

\* orders the gateway reports on: a payment is attempted with the session
\* id, which the client receives in the response of create-order
Notifiable == {o \in OrderIds : co[o].pc = "done"}

----------------------------------------------------------------------------
(* paid_at-guarded revision: the updates of orders *)

WebhookSuccess(t) == t \in {"SUCCESS", "PAID", "AUTHORIZED", "CAPTURED"}
WebhookFailure(t) == t \in {"FAILED", "CANCELLED"}

PollSuccess(t) == t \in {"SUCCESS", "PAID"}
PollFailure(t) == t \in {"FAILED", "CANCELLED"}

\* an update filtered by .eq('id', ..) alone
Unguarded(row) == TRUE

\* .is('paid_at', null)
PaidAtIsNull(row) == row.paid_at = NoTime

\* variants of the filters: one that lets every row through, one that asks
\* for the status instead of paid_at
GuardDropped(row) == TRUE
GuardVerifyDropped(row) == TRUE
GuardOnlyActive(row) == row.status = "Payment Active"

\* the filter after .eq('id', ..) of each update of orders
WebhookPaidGuard(row) == PaidAtIsNull(row)
WebhookFailedGuard(row) == PaidAtIsNull(row)
VerifyPaidGuard(row) == PaidAtIsNull(row)
VerifyFailedGuard(row) == PaidAtIsNull(row)
ReconcilePaidGuard(row) == Unguarded(row)
ReconcileFailedGuard(row) == PaidAtIsNull(row)

IsSuccess(kind, t) == IF kind = "webhook" THEN WebhookSuccess(t) ELSE PollSuccess(t)

IsFailure(kind, t) ==
  ~IsSuccess(kind, t) /\ IF kind = "webhook" THEN WebhookFailure(t) ELSE PollFailure(t)

\* the update a handler of the given kind makes for status t matches a row
PaHits(kind, t, o) ==
  /\ orders[o] # NoRow
  /\ CASE kind = "webhook" ->
            \/ IsSuccess(kind, t) /\ WebhookPaidGuard(orders[o][1])
            \/ IsFailure(kind, t) /\ WebhookFailedGuard(orders[o][1])
       [] kind = "verify" ->
            \/ IsSuccess(kind, t) /\ VerifyPaidGuard(orders[o][1])
            \/ IsFailure(kind, t) /\ VerifyFailedGuard(orders[o][1])
       [] OTHER ->
            \/ IsSuccess(kind, t) /\ ReconcilePaidGuard(orders[o][1])
            \/ IsFailure(kind, t) /\ ReconcileFailedGuard(orders[o][1])

\* the row after the update: only the webhook writes payment_id
PaNewRow(kind, t, row, pid) ==
  IF IsSuccess(kind, t)
  THEN [row EXCEPT !.status = "Preparing", !.paid_at = clock,
                   !.payment_id = IF kind = "webhook" THEN pid ELSE @]
  ELSE [row EXCEPT !.status = "Payment Failed"]

\* handler i awaits its update of orders and becomes record after; the
\* result of the call is not read, so an error leaves the handler on its way
PaUpdate(i, after) ==
  LET h == hs[i]
      calls == IsSuccess(h.kind, h.status) \/ IsFailure(h.kind, h.status)
      hit == PaHits(h.kind, h.status, h.o)
  IN /\ \/ /\ IF hit
              THEN /\ orders' = [orders EXCEPT ![h.o] =
                         Row(PaNewRow(h.kind, h.status, @[1], h.pid))]
                   /\ clock' = IF IsSuccess(h.kind, h.status) THEN clock + 1 ELSE clock
              ELSE UNCHANGED <<orders, clock>>
           /\ hs' = [hs EXCEPT ![i] = [after EXCEPT !.rows = IF hit THEN 1 ELSE 0]]
           /\ NoFail
        \/ /\ calls
           /\ Fails
           /\ hs' = [hs EXCEPT ![i] = [after EXCEPT !.err = TRUE]]
           /\ UNCHANGED <<orders, clock>>
     /\ UNCHANGED <<order_items, pending_orders, payments, cf_orders, co, replied, env>>

----------------------------------------------------------------------------
(* paid_at-guarded revision: webhook, verify-order, reconcile-stuck *)

verifyCashfreeSignature(rawBody, signatureHeader) ==
  /\ env.webhook_secret
  /\ signatureHeader # NoSig
  /\ Hmac(WebhookSecret, rawBody) = signatureHeader

PaRequests ==
  {Request(o, pid, st, kind, WebhookSecret) :
     o \in Notifiable, pid \in SnapPaymentIds, st \in Tokens,
     kind \in {"bodyonly", "valid", "missing"}}

PaHandler(req) ==
  Handler("webhook", req, req.body.order_id, req.body.cf_payment_id,
          ToUpper(req.body.payment_status))

\* a request that fails verification is acknowledged and dropped
PaReject ==
  /\ \E req \in PaRequests :
       /\ ~verifyCashfreeSignature(Raw(req.body), req.signature)
       /\ replied' = Row([PaHandler(req) EXCEPT !.pc = "done", !.resp = 200])
  /\ UNCHANGED <<orders, order_items, pending_orders, payments, cf_orders, co,
                 hs, nfail, clock, env>>

PaAccept ==
  /\ Len(hs) < MaxCalls
  /\ \E req \in PaRequests :
       /\ verifyCashfreeSignature(Raw(req.body), req.signature)
       /\ hs' = Append(hs, [PaHandler(req) EXCEPT !.pc = "payInsert"])
  /\ UNCHANGED <<orders, order_items, pending_orders, payments, cf_orders, co,
                 replied, nfail, clock, env>>

\* order_payments insert: an error, a duplicate cf_payment_id included, is
\* at most logged
PaPayInsert ==
  \E i \in DOMAIN hs :
    /\ hs[i].kind = "webhook" /\ hs[i].pc = "payInsert"
    /\ \/ payments' = [payments EXCEPT ![hs[i].pid] = 1] /\ NoFail
       \/ Fails /\ UNCHANGED payments
    /\ Goto(i, "update")
    /\ UNCHANGED <<orders, order_items, pending_orders, cf_orders, co, replied,
                   clock, env>>

PaWebhookUpdate ==
  \E i \in DOMAIN hs :
    /\ hs[i].kind = "webhook" /\ hs[i].pc = "update"
    /\ PaUpdate(i, [hs[i] EXCEPT !.pc = "done", !.resp = 200])

\* POST /api/verify-order: the gateway answers the poll with a status
PaVerifyPoll ==
  /\ Len(hs) < MaxCalls
  /\ \E o \in Notifiable, t \in Tokens :
       hs' = Append(hs, [Handler("verify", [orderId |-> o], o, Null, ToUpper(t))
                           EXCEPT !.pc = "update"])
  /\ UNCHANGED <<orders, order_items, pending_orders, payments, cf_orders, co,
                 replied, nfail, clock, env>>

PaVerifyUpdate ==
  \E i \in DOMAIN hs :
    /\ hs[i].kind = "verify" /\ hs[i].pc = "update"
    /\ PaUpdate(i, [hs[i] EXCEPT !.pc = "done", !.resp = 200])

RECURSIVE SetToSeq(_)
SetToSeq(S) ==
  IF S = {} THEN <<>>
  ELSE LET x == CHOOSE y \in S : TRUE IN <<x>> \o SetToSeq(S \ {x})

\* the rows reconcile-stuck selects: status Pending or Payment Active
Stuck ==
  SetToSeq({o \in OrderIds :
              orders[o] # NoRow /\ orders[o][1].status \in {"Pending", "Payment Active"}})

\* the loop of reconcile-stuck before its next await: the poll of the first
\* order left, or the response when none is left
PaReconcileLoop(h, todo) ==
  IF todo = <<>>
  THEN [h EXCEPT !.req = [todo |-> todo], !.pc = "done", !.resp = 200]
  ELSE [h EXCEPT !.req = [todo |-> todo], !.o = Head(todo), !.pc = "poll"]

PaReconcileSelect ==
  /\ Len(hs) < MaxCalls
  /\ LET h == Handler("reconcile", [todo |-> <<>>], "order_1", Null, "")
     IN \/ hs' = Append(hs, PaReconcileLoop(h, Stuck)) /\ NoFail
        \/ Fails /\ hs' = Append(hs, [h EXCEPT !.pc = "done", !.resp = 500])
  /\ UNCHANGED <<orders, order_items, pending_orders, payments, cf_orders, co,
                 replied, clock, env>>

\* the poll of one order: a status, or an error caught inside the loop
PaReconcilePoll ==
  \E i \in DOMAIN hs :
    /\ hs[i].kind = "reconcile" /\ hs[i].pc = "poll"
    /\ \/ \E t \in Tokens :
            hs' = [hs EXCEPT ![i].status = ToUpper(t), ![i].pc = "update"]
       \/ hs' = [hs EXCEPT ![i] = PaReconcileLoop(@, Tail(@.req.todo))]
    /\ UNCHANGED <<orders, order_items, pending_orders, payments, cf_orders, co,
                   replied, nfail, clock, env>>

PaReconcileUpdate ==
  \E i \in DOMAIN hs :
    /\ hs[i].kind = "reconcile" /\ hs[i].pc = "update"
    /\ PaUpdate(i, PaReconcileLoop(hs[i], Tail(hs[i].req.todo)))

PaInit ==
  /\ EmptyStore
  /\ env = [webhook_secret |-> TRUE, items_unique |-> TRUE]

PaNext ==
  \/ PaCreateSession
  \/ PaUpsertOrder
  \/ PaUpsertItems
  \/ PaAccept
  \/ PaPayInsert
  \/ PaWebhookUpdate
  \/ PaVerifyPoll
  \/ PaVerifyUpdate
  \/ PaReconcileSelect
  \/ PaReconcilePoll
  \/ PaReconcileUpdate

\* the routes with the requests that fail verification as well
PaAllNext == PaReject \/ PaNext

SpecPaidAt == PaInit /\ [][PaNext]_vars

SpecPaidAtAll == PaInit /\ [][PaAllNext]_vars

----------------------------------------------------------------------------
(* Claims on the paid_at-guarded revision *)

PaDone(i) == hs[i].pc = "done"

\* handler i has awaited its update of orders and the store has executed it
PaExecuted(i) == hs[i].kind \in {"webhook", "verify"} /\ PaDone(i) /\ ~hs[i].err

Paid(o) ==
  orders[o] # NoRow /\ orders[o][1].status = "Preparing" /\ orders[o][1].paid_at # NoTime

ItemIds(rows) == {rows[k].item_id : k \in DOMAIN rows}

C3_Step ==
  \A o \in OrderIds :
    Paid(o) => /\ orders'[o] # NoRow
               /\ orders'[o][1].status = "Preparing"
               /\ Len(order_items'[o]) >= Len(order_items[o])
               /\ ItemIds(order_items[o]) \subseteq ItemIds(order_items'[o])

\* C3: once an order is 'Preparing' with paid_at set, no step of the webhook,
\* of verify-order or of reconcile-stuck, whatever status it carries, changes
\* the order's status or removes a row of order_items.
C3_PreparingSticky == [][C3_Step]_vars

\* a failure notification has been processed on a paid order with line
\* items: its update matched no row
C3_Witness ==
  \E o \in OrderIds, i \in DOMAIN hs :
    /\ Paid(o)
    /\ order_items[o] # <<>>
    /\ hs[i].o = o /\ PaExecuted(i) /\ IsFailure(hs[i].kind, hs[i].status)
    /\ hs[i].rows = 0

C4_OriginalStep ==
  \A o \in OrderIds :
    (orders[o] # NoRow /\ orders[o][1].status \in {"Preparing", "Payment Failed"})
      => orders'[o] # NoRow /\ orders'[o][1].status = orders[o][1].status

C4_Step ==
  \A o \in OrderIds :
    orders[o] # NoRow =>
      /\ orders'[o] # NoRow
      /\ LET old == orders[o][1].status
             new == orders'[o][1].status
         IN \/ new = old
            \/ old = "Payment Active" /\ new \in {"Preparing", "Payment Failed"}
            \/ old = "Payment Failed" /\ new = "Preparing"

C6_SuccessWins ==
  \A o \in OrderIds, i \in DOMAIN hs :
    (orders[o] # NoRow /\ hs[i].o = o /\ PaExecuted(i) /\ IsSuccess(hs[i].kind, hs[i].status))
      => orders[o][1].status = "Preparing"

\* the success came first and the failure overtook it: one through the
\* webhook, the other through verify-order
C6_Witness ==
  /\ Len(hs) = 2
  /\ hs[1].kind # hs[2].kind
  /\ PaExecuted(1) /\ IsSuccess(hs[1].kind, hs[1].status) /\ hs[1].rows = 1
  /\ PaExecuted(2) /\ IsFailure(hs[2].kind, hs[2].status) /\ hs[2].rows = 1
  /\ orders[hs[1].o] # NoRow /\ hs[2].o = hs[1].o

----------------------------------------------------------------------------
(* cart_json revision (part_009): create-order *)

\* the order is written before the gateway is called; an error of the insert
\* is logged and the handler goes on
C9InsertOrder ==
  \E o \in OrderIds, cart \in Carts :
    /\ cf_orders[o] = NoRow
    /\ co[o].pc = "none"
    /\ co' = [co EXCEPT ![o] = [pc |-> "gateway", cart |-> cart]]
    /\ \/ /\ orders[o] = NoRow
          /\ orders' = [orders EXCEPT ![o] = Row([status |-> "Pending", cart_json |-> cart])]
          /\ NoFail
       \/ /\ orders[o] # NoRow
          /\ NoFail
          /\ UNCHANGED orders
       \/ Fails /\ UNCHANGED orders
    /\ UNCHANGED <<order_items, pending_orders, payments, cf_orders, hs, replied,
                   clock, env>>

C9CreateSession ==
  \E o \in OrderIds :
    /\ co[o].pc = "gateway"
    /\ cf_orders' = [cf_orders EXCEPT ![o] = co[o].cart]
    /\ co' = [co EXCEPT ![o].pc = "done"]
    /\ UNCHANGED <<orders, order_items, pending_orders, payments, hs, replied,
                   nfail, clock, env>>

----------------------------------------------------------------------------
(* cart_json revision: webhook *)

Statuses9 == {"success", "FAILED", "ACTIVE"}

ToUpper9(t) == IF t = "success" THEN "SUCCESS" ELSE t

paidStatuses == {"PAID", "SUCCESS", "COMPLETED", "CAPTURED"}

failedStatuses == {"FAILED", "CANCELLED", "DECLINED"}

\* req.rawBody of a notification
Raw9(body) == body.order_id \o "|" \o body.order_status

SigKinds9 == {"valid", "tampered", "missing"}

\* the signature header: made by the gateway over the body (valid), by the
\* gateway for another body (tampered), or absent
Sign9(kind, body) ==
  CASE kind = "valid" -> Hmac(WebhookSecret, Raw9(body))
    [] kind = "tampered" ->
         Hmac(WebhookSecret,
              Raw9([body EXCEPT !.order_status = IF @ = "FAILED" THEN "success" ELSE "FAILED"]))
    [] OTHER -> NoSig

Request9(o, st, kind) ==
  LET body == [order_id |-> o, order_status |-> st, cart |-> NoRow]
  IN [body |-> body, signature |-> Sign9(kind, body)]

\* the gateway signs notifications of the orders it knows; anybody can send
\* the others
W9Requests ==
  {Request9(t[1], t[2], t[3]) :
     t \in {u \in OrderIds \X Statuses9 \X SigKinds9 :
              u[3] = "valid" => cf_orders[u[1]] # NoRow}}

\* computed === signatureHeader, for a header that is present
Authentic9(req) ==
  req.signature # NoSig /\ req.signature = Hmac(WebhookSecret, Raw9(req.body))

\* the verification runs only with CASHFREE_WEBHOOK_SECRET set
SignatureCheck9(req) == env.webhook_secret => Authentic9(req)

W9Handler(req) ==
  Handler("webhook", req, req.body.order_id, Null, ToUpper9(req.body.order_status))

W9Reject ==
  /\ \E req \in W9Requests :
       /\ ~SignatureCheck9(req)
       /\ replied' = Row([W9Handler(req) EXCEPT
                            !.pc = "done",
                            !.resp = IF req.signature = NoSig THEN 400 ELSE 401])
  /\ UNCHANGED <<orders, order_items, pending_orders, payments, cf_orders, co,
                 hs, nfail, clock, env>>

\* serial: the request comes when every earlier one has been answered
W9Accept(serial) ==
  /\ Len(hs) < MaxCalls
  /\ serial => \A i \in DOMAIN hs : ~Running(i)
  /\ \E req \in W9Requests :
       /\ SignatureCheck9(req)
       /\ hs' = Append(hs, [W9Handler(req) EXCEPT !.pc = "select"])
  /\ UNCHANGED <<orders, order_items, pending_orders, payments, cf_orders, co,
                 replied, nfail, clock, env>>

\* where the handler goes once the order row is known to exist
W9Branch(h) ==
  IF h.status \in paidStatuses THEN [h EXCEPT !.pc = "markPaid"]
  ELSE IF h.status \in failedStatuses THEN [h EXCEPT !.pc = "markFailed"]
  ELSE [h EXCEPT !.pc = "done", !.resp = 200]

W9Select ==
  \E i \in DOMAIN hs :
    /\ hs[i].pc = "select"
    /\ \/ /\ NoFail
          /\ hs' = [hs EXCEPT ![i] = IF orders[@.o] = NoRow
                                     THEN [@ EXCEPT !.pc = "create"]
                                     ELSE W9Branch(@)]
       \/ Fails /\ Reply(i, 500)
    /\ UNCHANGED <<orders, order_items, pending_orders, payments, cf_orders, co,
                   replied, clock, env>>

\* insert of the missing order; a row written meanwhile is a key conflict
W9Create ==
  \E i \in DOMAIN hs :
    /\ hs[i].pc = "create"
    /\ LET o == hs[i].o
       IN \/ /\ orders[o] = NoRow
             /\ NoFail
             /\ orders' = [orders EXCEPT ![o] =
                   Row([status |-> IF hs[i].status \in paidStatuses
                                   THEN "Preparing" ELSE "Pending",
                        cart_json |-> hs[i].req.body.cart])]
             /\ hs' = [hs EXCEPT ![i] = W9Branch(@)]
          \/ /\ orders[o] # NoRow
             /\ NoFail
             /\ Reply(i, 500)
             /\ UNCHANGED orders
          \/ Fails /\ Reply(i, 500) /\ UNCHANGED orders
    /\ UNCHANGED <<order_items, pending_orders, payments, cf_orders, co, replied,
                   clock, env>>

\* update({ status: 'Preparing' }).eq('id', orderId); an error is logged
W9MarkPaid ==
  \E i \in DOMAIN hs :
    /\ hs[i].pc = "markPaid"
    /\ \/ /\ NoFail
          /\ orders' = [orders EXCEPT ![hs[i].o] =
                IF @ = NoRow THEN @ ELSE Row([@[1] EXCEPT !.status = "Preparing"])]
       \/ Fails /\ UNCHANGED orders
    /\ Goto(i, "refetch")
    /\ UNCHANGED <<order_items, pending_orders, payments, cf_orders, co, replied,
                   clock, env>>

W9Refetch ==
  \E i \in DOMAIN hs :
    /\ hs[i].pc = "refetch"
    /\ \/ /\ NoFail
          /\ LET cart == IF orders[hs[i].o] = NoRow THEN NoRow
                         ELSE orders[hs[i].o][1].cart_json
             IN hs' = [hs EXCEPT ![i] = IF Len(cart) > 0
                                        THEN [@ EXCEPT !.cart = cart, !.pc = "items"]
                                        ELSE [@ EXCEPT !.pc = "done", !.resp = 200]]
       \/ Fails /\ Reply(i, 500)
    /\ UNCHANGED <<orders, order_items, pending_orders, payments, cf_orders, co,
                   replied, clock, env>>

W9ItemsPayload(o, cart) ==
  [k \in 1..Len(cart) |->
     [order_id |-> o, item_id |-> cart[k].item, qty |-> cart[k].qty,
      price |-> cart[k].price]]

\* insert of the items of cart_json: a unique violation (23505) is answered
\* 200, any other error 500
W9Items ==
  \E i \in DOMAIN hs :
    /\ hs[i].pc = "items"
    /\ LET o == hs[i].o
           rows == W9ItemsPayload(o, hs[i].cart)
       IN \/ /\ InsertItemsOk(o, rows)
             /\ NoFail
             /\ order_items' = [order_items EXCEPT ![o] = @ \o rows]
             /\ Reply(i, 200)
          \/ /\ ~InsertItemsOk(o, rows)
             /\ NoFail
             /\ Reply(i, 200)
             /\ UNCHANGED order_items
          \/ Fails /\ Reply(i, 500) /\ UNCHANGED order_items
    /\ UNCHANGED <<orders, pending_orders, payments, cf_orders, co, replied,
                   clock, env>>

\* update({ status: 'Failed' }).eq('id', orderId); an error is logged
W9MarkFailed ==
  \E i \in DOMAIN hs :
    /\ hs[i].pc = "markFailed"
    /\ \/ /\ NoFail
          /\ orders' = [orders EXCEPT ![hs[i].o] =
                IF @ = NoRow THEN @ ELSE Row([@[1] EXCEPT !.status = "Failed"])]
       \/ Fails /\ UNCHANGED orders
    /\ Reply(i, 200)
    /\ UNCHANGED <<order_items, pending_orders, payments, cf_orders, co, replied,
                   clock, env>>

Init9 ==
  /\ EmptyStore
  /\ env \in [webhook_secret : BOOLEAN, items_unique : BOOLEAN]

Steps9 ==
  \/ C9InsertOrder
  \/ C9CreateSession
  \/ W9Select
  \/ W9Create
  \/ W9MarkPaid
  \/ W9Refetch
  \/ W9Items
  \/ W9MarkFailed

\* requests one after the other, the rejected ones included
SeqNext9 == W9Reject \/ W9Accept(TRUE) \/ Steps9

\* the handlers of the requests that pass the verification, interleaved
Next9 == W9Accept(FALSE) \/ Steps9

Spec009Seq == Init9 /\ [][SeqNext9]_vars

Spec009 == Init9 /\ [][Next9]_vars

----------------------------------------------------------------------------
(* Claims on the cart_json revision *)

C5_Step ==
  \A o \in OrderIds :
    (orders[o] # NoRow /\ orders'[o] # NoRow /\ orders'[o][1].status # orders[o][1].status)
      => orders[o][1].status = "Pending" /\ orders'[o][1].status = "Failed"

\* C5: a step of the webhook that handles a FAILED, CANCELLED or DECLINED
\* notification changes the status of an order only from 'Pending', and then
\* to 'Failed'; an order that is 'Preparing' keeps its status.  Stated for
\* the servers that verify signatures, where every notification handled is
\* one the gateway signed.
C5_FailedOnlyFromPending == [][(env.webhook_secret /\ W9MarkFailed) => C5_Step]_vars

\* request i is the one whose handler takes the step
StepOf(i) == hs'[i] # hs[i]

\* C7: no step of the handler of a request that is not authentic (header
\* absent, signature of another key or of another body) inserts or updates
\* a row of orders or order_items, with CASHFREE_WEBHOOK_SECRET set or not.
C7_UnverifiedNeverWrites ==
  [][\A i \in DOMAIN hs :
       (StepOf(i) /\ ~Authentic9(hs[i].req))
         => orders' = orders /\ order_items' = order_items]_vars

----------------------------------------------------------------------------
(* Ledger-gated revision (part_003): create-order *)

L3CreateSession ==
  \E o \in OrderIds, cart \in Carts :
    /\ cf_orders[o] = NoRow
    /\ co[o].pc = "none"
    /\ cf_orders' = [cf_orders EXCEPT ![o] = cart]
    /\ co' = [co EXCEPT ![o].pc = "snapshot"]
    /\ UNCHANGED <<orders, order_items, pending_orders, payments, hs, replied,
                   nfail, clock, env>>

\* the error of the upsert is logged and the session is returned all the same
L3WriteSnapshot ==
  \E o \in OrderIds :
    /\ co[o].pc = "snapshot"
    /\ co' = [co EXCEPT ![o].pc = "done"]
    /\ \/ /\ pending_orders' = [pending_orders EXCEPT ![o] =
                                  Row([id |-> o, cart |-> cf_orders[o]])]
          /\ NoFail
       \/ /\ Fails
          /\ UNCHANGED pending_orders
    /\ UNCHANGED <<orders, order_items, payments, cf_orders, hs, replied, clock, env>>

----------------------------------------------------------------------------
(* Ledger-gated revision: webhook *)

L3SignatureOk(req) ==
  /\ req.signature # NoSig
  /\ Hmac(ClientSecret, req.timestamp \o Raw(req.body)) = req.signature

L3Requests ==
  {Request(o, pid, st, kind, ClientSecret) :
     o \in {x \in OrderIds : cf_orders[x] # NoRow}, pid \in SnapPaymentIds,
     st \in {"SUCCESS", "FAILED"}, kind \in SigKinds}

L3Handler(req) ==
  Handler("webhook", req, req.body.order_id, req.body.cf_payment_id,
          req.body.payment_status)

\* answered before any store call: 400 for an invalid signature, 200 for a
\* status other than SUCCESS
L3Reject ==
  /\ \E req \in L3Requests :
       /\ ~L3SignatureOk(req) \/ req.body.payment_status # "SUCCESS"
       /\ replied' = Row([L3Handler(req) EXCEPT
                           !.pc = "done",
                           !.resp = IF ~L3SignatureOk(req) THEN 400 ELSE 200])
  /\ UNCHANGED <<orders, order_items, pending_orders, payments, cf_orders, co,
                 hs, nfail, clock, env>>

L3Accept(serial) ==
  /\ Len(hs) < MaxDeliveries
  /\ serial => \A i \in DOMAIN hs : ~Running(i)
  /\ \E req \in L3Requests :
       /\ L3SignatureOk(req)
       /\ req.body.payment_status = "SUCCESS"
       /\ hs' = Append(hs, [L3Handler(req) EXCEPT !.pc = "ledgerSelect"])
  /\ UNCHANGED <<orders, order_items, pending_orders, payments, cf_orders, co,
                 replied, nfail, clock, env>>

\* the ledger lookup: a payment id already recorded ends the handler with
\* 200; the error of the select is not read
L3LedgerSelect ==
  \E i \in DOMAIN hs :
    /\ hs[i].pc = "ledgerSelect"
    /\ \/ /\ NoFail
          /\ IF payments[hs[i].pid] > 0
             THEN Reply(i, 200)
             ELSE Goto(i, "ledgerInsert")
       \/ /\ Fails
          /\ Goto(i, "ledgerInsert")
    /\ UNCHANGED <<orders, order_items, pending_orders, payments, cf_orders, co,
                   replied, clock, env>>

LedgerUnique_Dropped(pid) == TRUE

\* cf_payment_id is the key of payments: the store rejects the insert of an
\* id that has a row
LedgerUnique(pid) == payments[pid] = 0

\* the ledger row is written before anything is known of the order
L3LedgerInsert ==
  \E i \in DOMAIN hs :
    /\ hs[i].pc = "ledgerInsert"
    /\ \/ /\ LedgerUnique(hs[i].pid)
          /\ payments' = [payments EXCEPT ![hs[i].pid] = @ + 1]
          /\ Goto(i, "orderSelect")
          /\ NoFail
       \/ /\ ~LedgerUnique(hs[i].pid)
          /\ Reply(i, 500)
          /\ NoFail
          /\ UNCHANGED payments
       \/ /\ Fails
          /\ Reply(i, 500)
          /\ UNCHANGED payments
    /\ UNCHANGED <<orders, order_items, pending_orders, cf_orders, co, replied, clock, env>>

L3OrderSelect ==
  \E i \in DOMAIN hs :
    /\ hs[i].pc = "orderSelect"
    /\ \/ /\ NoFail
          /\ IF orders[hs[i].o] # NoRow
             THEN Reply(i, 200)
             ELSE Goto(i, "fetch")
       \/ /\ Fails
          /\ Goto(i, "fetch")
    /\ UNCHANGED <<orders, order_items, pending_orders, payments, cf_orders, co,
                   replied, clock, env>>

\* no snapshot, or an error of the select: 500
L3FetchPending ==
  \E i \in DOMAIN hs :
    /\ hs[i].pc = "fetch"
    /\ \/ /\ NoFail
          /\ IF pending_orders[hs[i].o] = NoRow
             THEN Reply(i, 500)
             ELSE hs' = [hs EXCEPT ![i].pc = "insOrder",
                                   ![i].cart = pending_orders[hs[i].o][1].cart]
       \/ /\ Fails
          /\ Reply(i, 500)
    /\ UNCHANGED <<orders, order_items, pending_orders, payments, cf_orders, co,
                   replied, clock, env>>

L3InsertOrder ==
  \E i \in DOMAIN hs :
    /\ hs[i].pc = "insOrder"
    /\ \/ /\ orders[hs[i].o] = NoRow
          /\ orders' = [orders EXCEPT ![hs[i].o] =
                          Row([status |-> "Preparing", paid_at |-> NoTime, payment_id |-> Null])]
          /\ hs' = [hs EXCEPT ![i].pc = "insItems", ![i].rows = 1]
          /\ NoFail
       \/ /\ orders[hs[i].o] # NoRow      \* primary key violation
          /\ Reply(i, 500)
          /\ NoFail
          /\ UNCHANGED orders
       \/ /\ Fails
          /\ Reply(i, 500)
          /\ UNCHANGED orders
    /\ UNCHANGED <<order_items, pending_orders, payments, cf_orders, co, replied, clock, env>>

L3ItemsPayload(o, cart) ==
  [k \in 1..Len(cart) |->
     [order_id |-> o, item_id |-> cart[k].item, qty |-> cart[k].qty,
      price |-> Max(0, cart[k].price - FLAT_ITEM_DISCOUNT)]]

L3InsertItems ==
  \E i \in DOMAIN hs :
    /\ hs[i].pc = "insItems"
    /\ LET rows == L3ItemsPayload(hs[i].o, hs[i].cart)
       IN \/ /\ InsertItemsOk(hs[i].o, rows)
             /\ order_items' = [order_items EXCEPT ![hs[i].o] = @ \o rows]
             /\ Goto(i, "delete")
             /\ NoFail
          \/ /\ ~InsertItemsOk(hs[i].o, rows)
             /\ Reply(i, 500)
             /\ NoFail
             /\ UNCHANGED order_items
          \/ /\ Fails
             /\ Reply(i, 500)
             /\ UNCHANGED order_items
    /\ UNCHANGED <<orders, pending_orders, payments, cf_orders, co, replied, clock, env>>

\* the result of the delete is not read
L3DeletePending ==
  \E i \in DOMAIN hs :
    /\ hs[i].pc = "delete"
    /\ Reply(i, 200)
    /\ \/ /\ pending_orders' = [pending_orders EXCEPT ![hs[i].o] = NoRow]
          /\ NoFail
       \/ /\ Fails
          /\ UNCHANGED pending_orders
    /\ UNCHANGED <<orders, order_items, payments, cf_orders, co, replied, clock, env>>

L3Init ==
  /\ EmptyStore
  /\ env \in [webhook_secret : {TRUE}, items_unique : BOOLEAN]

L3Steps ==
  \/ L3CreateSession
  \/ L3WriteSnapshot
  \/ L3LedgerSelect
  \/ L3LedgerInsert
  \/ L3OrderSelect
  \/ L3FetchPending
  \/ L3InsertOrder
  \/ L3InsertItems
  \/ L3DeletePending

\* deliveries one after the other, the rejected ones included
L3SeqNext == L3Reject \/ L3Accept(TRUE) \/ L3Steps

\* the handlers of the verified SUCCESS deliveries, interleaved
L3Next == L3Accept(FALSE) \/ L3Steps

Spec003Seq == L3Init /\ [][L3SeqNext]_vars

Spec003 == L3Init /\ [][L3Next]_vars

----------------------------------------------------------------------------
(* Claims on the ledger-gated revision *)

\* C10: when a SUCCESS delivery was answered 500 with no store operation
\* having failed (the snapshot of its order was missing) and the identical
\* notification is delivered again with the snapshot in the store, the
\* redelivery returns 200 and the order exists with status 'Preparing' and
\* the line items of the snapshot.
C10_RedeliveryMaterializes ==
  \A i, j \in DOMAIN hs :
    (/\ i < j
     /\ hs[i].req = hs[j].req
     /\ Done(i) /\ Done(j)
     /\ nfail = 0
     /\ ~hs[i].snap /\ hs[i].resp = 500
     /\ hs[j].snap)
      => /\ hs[j].resp = 200
         /\ orders[hs[j].o] # NoRow
         /\ orders[hs[j].o][1].status = "Preparing"
         /\ order_items[hs[j].o] = L3ItemsPayload(hs[j].o, cf_orders[hs[j].o])

----------------------------------------------------------------------------
(* src/index.js, second revision (lines 187-459) *)

\* create-order: the gateway call, then the upserts of the order and of its
\* line items, awaited one after the other; their results are not read
IxCreateOrder ==
  /\ \E o \in OrderIds :
       \/ /\ co[o].pc = "none" /\ cf_orders[o] = NoRow
          /\ \E cart \in Carts : cf_orders' = [cf_orders EXCEPT ![o] = cart]
          /\ co' = [co EXCEPT ![o].pc = "order"]
          /\ UNCHANGED <<orders, order_items, nfail>>
       \/ /\ co[o].pc = "order"
          /\ co' = [co EXCEPT ![o].pc = "items"]
          /\ \/ /\ orders' = [orders EXCEPT ![o] =
                     IF @ = NoRow
                     THEN Row([status |-> "Payment Active", paid_at |-> NoTime,
                               payment_id |-> Null])
                     ELSE Row([@[1] EXCEPT !.status = "Payment Active"])]
                /\ NoFail
             \/ Fails /\ UNCHANGED orders
          /\ UNCHANGED <<order_items, cf_orders>>
       \/ /\ co[o].pc = "items"
          /\ co' = [co EXCEPT ![o].pc = "done"]
          /\ \/ /\ order_items' = [order_items EXCEPT ![o] =
                     UpsertItems(@, PaItemsPayload(o, cf_orders[o]))]
                /\ NoFail
             \/ Fails /\ UNCHANGED order_items
          /\ UNCHANGED <<orders, cf_orders>>
  /\ UNCHANGED <<pending_orders, payments, hs, replied, clock, env>>

\* verifyCashfreeSignature(rawBody, signatureHeader, timestampHeader): the
\* key is the client secret, the signed string timestamp + rawBody
IxVerifySignature(rawBody, signatureHeader, timestampHeader) ==
  /\ signatureHeader # NoSig
  /\ timestampHeader # ""
  /\ Hmac(ClientSecret, timestampHeader \o rawBody) = signatureHeader

\* the webhook before its first await: a request without signature, with a
\* wrong one, or without order id or payment id is answered 200 at once
IxWebhookArrive ==
  /\ \E o \in Notifiable, pid \in SnapPaymentIds \cup {Null}, st \in Tokens,
        kind \in {"valid", "tampered", "missing"} :
       LET req == Request(o, pid, st, kind, ClientSecret)
           h == Handler("webhook", req, o, pid, ToUpper(st))
       IN IF /\ IxVerifySignature(Raw(req.body), req.signature, req.timestamp)
             /\ pid # Null
          THEN /\ Len(hs) < MaxCalls
               /\ hs' = Append(hs, [h EXCEPT !.pc = "payInsert"])
               /\ UNCHANGED replied
          ELSE /\ replied' = Row([h EXCEPT !.pc = "done", !.resp = 200])
               /\ UNCHANGED hs
  /\ UNCHANGED <<orders, order_items, pending_orders, payments, cf_orders, co,
                 nfail, clock, env>>

\* order_payments insert: an error, a duplicate included, is logged
IxPayInsert ==
  \E i \in DOMAIN hs :
    /\ hs[i].kind = "webhook" /\ hs[i].pc = "payInsert"
    /\ \/ payments' = [payments EXCEPT ![hs[i].pid] = 1] /\ NoFail
       \/ Fails /\ UNCHANGED payments
    /\ IF hs[i].status \in {"SUCCESS", "PAID", "AUTHORIZED", "CAPTURED"}
       THEN Goto(i, "update")
       ELSE Reply(i, 200)
    /\ UNCHANGED <<orders, order_items, pending_orders, cf_orders, co, replied,
                   clock, env>>

\* an update of the orders row of o by .eq('id', o), and .is('paid_at', null)
\* where guarded; its result is not read. paid: the success update, which
\* stamps paid_at; pid: the payment_id it writes, Null for none
IxUpdate(o, paid, guarded, pid) ==
  /\ \/ /\ NoFail
        /\ IF orders[o] # NoRow /\ (guarded => orders[o][1].paid_at = NoTime)
           THEN /\ orders' = [orders EXCEPT ![o] = Row(
                     IF paid
                     THEN [@[1] EXCEPT !.status = "Preparing", !.paid_at = clock,
                                       !.payment_id = IF pid = Null THEN @ ELSE pid]
                     ELSE [@[1] EXCEPT !.status = "Payment Failed"])]
                /\ clock' = IF paid THEN clock + 1 ELSE clock
           ELSE UNCHANGED <<orders, clock>>
     \/ Fails /\ UNCHANGED <<orders, clock>>
  /\ UNCHANGED <<order_items, pending_orders, payments, cf_orders, co, replied, env>>

IxWebhookUpdate ==
  \E i \in DOMAIN hs :
    /\ hs[i].kind = "webhook" /\ hs[i].pc = "update"
    /\ IxUpdate(hs[i].o, TRUE, TRUE, hs[i].pid)
    /\ Reply(i, 200)

\* verify-order: the gateway answers the poll with a status; SUCCESS and PAID
\* lead to the paid update, FAILED and CANCELLED to the failed one
IxVerifyPoll ==
  /\ Len(hs) < MaxCalls
  /\ \E o \in Notifiable, t \in Tokens :
       LET h == Handler("verify", [orderId |-> o], o, Null, ToUpper(t))
       IN hs' = Append(hs, IF h.status \in {"SUCCESS", "PAID", "FAILED", "CANCELLED"}
                           THEN [h EXCEPT !.pc = "update"]
                           ELSE [h EXCEPT !.pc = "done", !.resp = 200])
  /\ UNCHANGED <<orders, order_items, pending_orders, payments, cf_orders, co,
                 replied, nfail, clock, env>>

IxVerifyUpdate ==
  \E i \in DOMAIN hs :
    /\ hs[i].kind = "verify" /\ hs[i].pc = "update"
    /\ IxUpdate(hs[i].o, hs[i].status \in {"SUCCESS", "PAID"}, TRUE, Null)
    /\ Reply(i, 200)

\* record-order: when the select finds no row and returns no error, the
\* order is inserted as 'Preparing'; .single() returns an error for no row
IxRecordOrder ==
  /\ \E i \in DOMAIN hs \cup {0} :
       IF i = 0
       THEN /\ Len(hs) < MaxCalls
            /\ \E o \in Notifiable :
                 hs' = Append(hs, [Handler("record", [orderId |-> o], o, Null, "")
                                     EXCEPT !.pc = "select"])
            /\ NoFail
       ELSE /\ hs[i].kind = "record" /\ hs[i].pc = "select"
            /\ Reply(i, 200)
            /\ NoFail \/ Fails
  /\ UNCHANGED <<orders, order_items, pending_orders, payments, cf_orders, co,
                 replied, clock, env>>

\* reconcile-stuck: the select of the orders in status Pending or Payment
\* Active, then for each of them the poll and the update, the paid one
\* without the paid_at filter; an error of the poll is caught in the loop
IxReconcile ==
  LET loop(h, todo) ==
        IF todo = <<>>
        THEN [h EXCEPT !.req = [todo |-> todo], !.pc = "done", !.resp = 200]
        ELSE [h EXCEPT !.req = [todo |-> todo], !.o = Head(todo), !.pc = "poll"]
  IN \/ /\ Len(hs) < MaxCalls
        /\ LET h == Handler("reconcile", [todo |-> <<>>], "order_1", Null, "")
           IN \/ hs' = Append(hs, loop(h, Stuck)) /\ NoFail
              \/ Fails /\ hs' = Append(hs, [h EXCEPT !.pc = "done", !.resp = 500])
        /\ UNCHANGED <<orders, order_items, pending_orders, payments, cf_orders,
                       co, replied, clock, env>>
     \/ \E i \in DOMAIN hs :
          /\ hs[i].kind = "reconcile" /\ hs[i].pc = "poll"
          /\ \/ \E t \in Tokens :
                  hs' = [hs EXCEPT ![i].status = ToUpper(t),
                                   ![i].pc = IF ToUpper(t) \in {"SUCCESS", "PAID", "FAILED", "CANCELLED"}
                                             THEN "update" ELSE "next"]
             \/ hs' = [hs EXCEPT ![i].pc = "next"]
          /\ UNCHANGED <<orders, order_items, pending_orders, payments, cf_orders,
                         co, replied, nfail, clock, env>>
     \/ \E i \in DOMAIN hs :
          /\ hs[i].kind = "reconcile" /\ hs[i].pc = "update"
          /\ LET paid == hs[i].status \in {"SUCCESS", "PAID"}
             IN IxUpdate(hs[i].o, paid, ~paid, Null)
          /\ hs' = [hs EXCEPT ![i] = loop(@, Tail(@.req.todo))]
     \/ \E i \in DOMAIN hs :
          /\ hs[i].kind = "reconcile" /\ hs[i].pc = "next"
          /\ hs' = [hs EXCEPT ![i] = loop(@, Tail(@.req.todo))]
          /\ UNCHANGED <<orders, order_items, pending_orders, payments, cf_orders,
                         co, replied, nfail, clock, env>>

IxNext ==
  \/ IxCreateOrder
  \/ IxWebhookArrive
  \/ IxPayInsert
  \/ IxWebhookUpdate
  \/ IxVerifyPoll
  \/ IxVerifyUpdate
  \/ IxRecordOrder
  \/ IxReconcile

SpecIndex2 == PaInit /\ [][IxNext]_vars

----------------------------------------------------------------------------
(* Second revision of src/index.js: the comparison of the signatures *)

\* A signature is a string, here a sequence of characters: "a" and "b" take
\* one byte in UTF-8, "U+00E9" two.  The computed signature is base64 text
\* of a fixed length; the header is whatever non-empty string the client
\* sent (an empty one is refused before the comparison).
ComputedSignatures == [1..MaxSigLen -> {"a", "b"}]

SignatureHeaders ==
  UNION {[1..n -> {"a", "b", "U+00E9"}] : n \in 1..MaxSigLen}

\* the last statement of verifyCashfreeSignature: timingSafeEqual over the
\* two buffers walks all their bytes, and throws when their byte lengths
\* differ; the catch then compares with ===, which answers at once for
\* strings of different length and at the first differing character for
\* strings of the same length.  steps counts the positions read.
IxCompareSignatures(computed, signatureHeader) ==
  LET ByteLength(str) ==
        Len(str) + Cardinality({k \in DOMAIN str : str[k] = "U+00E9"})
      differ == {k \in DOMAIN computed : computed[k] # signatureHeader[k]}
  IN IF ByteLength(computed) = ByteLength(signatureHeader)
     THEN [equal |-> computed = signatureHeader, thrown |-> FALSE,
           steps |-> ByteLength(computed)]
     ELSE [equal |-> computed = signatureHeader, thrown |-> TRUE,
           steps |-> IF Len(computed) # Len(signatureHeader) THEN 0
                     ELSE CHOOSE k \in differ : \A m \in differ : k <= m]

\* one call of the comparison, kept with its operands
IxCompare ==
  /\ Len(hs) < MaxCalls
  /\ \E computed \in ComputedSignatures, signatureHeader \in SignatureHeaders :
       hs' = Append(hs, [kind |-> "compare", pc |-> "done",
                         computed |-> computed, provided |-> signatureHeader,
                         out |-> IxCompareSignatures(computed, signatureHeader)])
  /\ UNCHANGED <<orders, order_items, pending_orders, payments, cf_orders, co,
                 replied, nfail, clock, env>>

SpecIndex2Sig == PaInit /\ [][IxCompare]_vars

\* C32: the comparison takes constant time: against one computed signature,
\* two provided signatures of the same length take the same number of steps,
\* whatever their characters, also when their byte length differs from the
\* computed signature's.
C32_ConstantTimeCompare ==
  \A i, j \in DOMAIN hs :
    (/\ hs[i].computed = hs[j].computed
     /\ Len(hs[i].provided) = Len(hs[j].provided)
     /\ hs[i].out.thrown = hs[j].out.thrown)
      => hs[i].out.steps = hs[j].out.steps

\* C30: a verified notification whose status is AUTHORIZED is acknowledged
\* with 200 and no step of its handler changes the orders row.
C30_AuthorizedIsOther ==
  [][\A i \in DOMAIN hs :
       (StepOf(i) /\ hs[i].kind = "webhook" /\ hs[i].status = "AUTHORIZED")
         => /\ orders' = orders
            /\ hs'[i].pc = "done" => hs'[i].resp = 200]_vars

\* C16: an order has a payment_id if and only if its status is 'Preparing'.
C16_PaymentIdIffPreparing ==
  \A o \in OrderIds :
    orders[o] # NoRow =>
      (orders[o][1].payment_id # Null <=> orders[o][1].status = "Preparing")

----------------------------------------------------------------------------
(* Further claims on the paid_at-guarded revision *)

\* the status of order o once a handler of the given kind has run its update
\* for the gateway's status t
StatusAfter(kind, t, o) ==
  IF PaHits(kind, ToUpper(t), o)
  THEN PaNewRow(kind, ToUpper(t), orders[o][1], "pay_1").status
  ELSE orders[o][1].status

\* C20: in every state of an order and for every status token, the update of
\* verify-order and the update of the webhook leave the order with the same
\* status.
C20_SameClassification ==
  \A o \in OrderIds, t \in Tokens :
    orders[o] # NoRow => StatusAfter("verify", t, o) = StatusAfter("webhook", t, o)

\* record-order: the select of the order (.single(): a missing row comes
\* back as an error, so the insert behind !existingOrder && !existErr is
\* never run), then the upsert of the line items of the cart in the request
PaRecordOrder ==
  /\ \/ /\ Len(hs) < MaxCalls
        /\ \E o \in Notifiable, cart \in Carts :
             hs' = Append(hs, [Handler("record", [orderId |-> o], o, Null, "")
                                 EXCEPT !.pc = "select", !.cart = cart])
        /\ UNCHANGED <<order_items, nfail>>
     \/ \E i \in DOMAIN hs :
          /\ hs[i].kind = "record" /\ hs[i].pc = "select"
          /\ Goto(i, "items")
          /\ NoFail \/ Fails
          /\ UNCHANGED order_items
     \/ \E i \in DOMAIN hs :
          /\ hs[i].kind = "record" /\ hs[i].pc = "items"
          /\ Reply(i, 200)
          /\ \/ /\ order_items' = [order_items EXCEPT ![hs[i].o] =
                      UpsertItems(@, PaItemsPayload(hs[i].o, hs[i].cart))]
                /\ NoFail
             \/ Fails /\ UNCHANGED order_items
  /\ UNCHANGED <<orders, pending_orders, payments, cf_orders, co, replied, clock, env>>

\* the routes of SpecPaidAt with record-order
PaRecordNext == PaNext \/ PaRecordOrder

SpecPaidAtRecord == PaInit /\ [][PaRecordNext]_vars

\* C26: the order_items of an order, once written, are the lines of the cart
\* its create-order request carried, whatever requests follow.
C26_ItemsAreTheCart ==
  \A o \in OrderIds :
    order_items[o] # <<>> => order_items[o] = PaItemsPayload(o, cf_orders[o])

\* the signature the gateway computes for a request: over timestamp + body
GatewaySigned(req) ==
  req.signature # NoSig
    /\ req.signature = Hmac(WebhookSecret, req.timestamp \o Raw(req.body))

\* C27: the webhook goes on with a notification exactly when its signature
\* header is the keyed hash of timestamp ++ rawBody: every request that
\* reaches the store carries that signature, and no request that was turned
\* away does.
C27_AcceptsExactlySigned ==
  /\ \A i \in DOMAIN hs : hs[i].kind = "webhook" => GatewaySigned(hs[i].req)
  /\ \A k \in DOMAIN replied : ~GatewaySigned(replied[k].req)

\* C21: the paid_at of an order, once set, is changed by no step of the
\* webhook, of verify-order or of reconcile-stuck, however they interleave.
C21_PaidAtWrittenOnce ==
  [][\A o \in OrderIds :
       (orders[o] # NoRow /\ orders[o][1].paid_at # NoTime)
         => (orders'[o] # NoRow /\ orders'[o][1].paid_at = orders[o][1].paid_at)]_vars

----------------------------------------------------------------------------
(* Further claims on the cart_json revision *)

\* every line of the cart is a row of order_items of order o
HasItemsOf(o, cart) ==
  \A k \in DOMAIN cart :
    \E r \in DOMAIN order_items[o] :
      /\ order_items[o][r].item_id = cart[k].item
      /\ order_items[o][r].qty = cart[k].qty

\* C17: with signatures verified, when the webhook has answered 200 to a
\* paid notification and the order is 'Preparing', order_items holds every
\* line of the cart the order was created with.
C17_PreparingHasItems ==
  \A i \in DOMAIN hs :
    (/\ env.webhook_secret
     /\ Done(i) /\ hs[i].resp = 200
     /\ hs[i].status \in paidStatuses
     /\ orders[hs[i].o] # NoRow
     /\ orders[hs[i].o][1].status = "Preparing")
      => HasItemsOf(hs[i].o, cf_orders[hs[i].o])

----------------------------------------------------------------------------
(* cart_json revision: record-order *)

\* /api/record-order, called when every earlier request has been answered:
\* a body with a field missing is answered 400; the order is looked up; one
\* that is 'Preparing' is answered 200; a missing one is inserted as
\* 'Preparing' with the cart of the body; a 'Pending' one is updated, the
\* error of the update logged; then the lines of the body's cart are
\* inserted, a unique violation (23505) answered 200, another error 500
R9RecordOrder ==
  \/ /\ \A i \in DOMAIN hs : ~Running(i)
     /\ \E o \in OrderIds, cart \in Carts, userId \in BOOLEAN :
          LET h == [Handler("record", [userId |-> userId], o, Null, "")
                      EXCEPT !.cart = cart]
          IN IF userId
             THEN /\ Len(hs) < MaxCalls
                  /\ hs' = Append(hs, [h EXCEPT !.pc = "record_select"])
                  /\ UNCHANGED replied
             ELSE /\ replied' = Row([h EXCEPT !.pc = "done", !.resp = 400])
                  /\ UNCHANGED hs
     /\ UNCHANGED <<orders, order_items, nfail>>
  \/ /\ \E i \in DOMAIN hs :
          /\ hs[i].kind = "record" /\ hs[i].pc = "record_select"
          /\ \/ /\ NoFail
                /\ LET existingOrder == orders[hs[i].o]
                   IN IF existingOrder = NoRow THEN Goto(i, "record_create")
                      ELSE IF existingOrder[1].status = "Preparing"
                      THEN Reply(i, 200)
                      ELSE IF existingOrder[1].status = "Pending"
                      THEN Goto(i, "record_update")
                      ELSE Goto(i, "record_items")
             \/ Fails /\ Reply(i, 500)
     /\ UNCHANGED <<orders, order_items, replied>>
  \/ /\ \E i \in DOMAIN hs :
          /\ hs[i].kind = "record" /\ hs[i].pc = "record_create"
          /\ \/ /\ orders[hs[i].o] = NoRow
                /\ NoFail
                /\ orders' = [orders EXCEPT ![hs[i].o] =
                      Row([status |-> "Preparing", cart_json |-> hs[i].cart])]
                /\ Goto(i, "record_items")
             \/ /\ orders[hs[i].o] # NoRow
                /\ NoFail
                /\ Reply(i, 500)
                /\ UNCHANGED orders
             \/ Fails /\ Reply(i, 500) /\ UNCHANGED orders
     /\ UNCHANGED <<order_items, replied>>
  \/ /\ \E i \in DOMAIN hs :
          /\ hs[i].kind = "record" /\ hs[i].pc = "record_update"
          /\ \/ /\ NoFail
                /\ orders' = [orders EXCEPT ![hs[i].o] =
                      IF @ = NoRow THEN @
                      ELSE Row([@[1] EXCEPT !.status = "Preparing"])]
             \/ Fails /\ UNCHANGED orders
          /\ Goto(i, "record_items")
     /\ UNCHANGED <<order_items, replied>>
  \/ /\ \E i \in DOMAIN hs :
          /\ hs[i].kind = "record" /\ hs[i].pc = "record_items"
          /\ LET o == hs[i].o
                 rows == W9ItemsPayload(o, hs[i].cart)
             IN \/ /\ InsertItemsOk(o, rows)
                   /\ NoFail
                   /\ order_items' = [order_items EXCEPT ![o] = @ \o rows]
                   /\ Reply(i, 200)
                \/ /\ ~InsertItemsOk(o, rows)
                   /\ NoFail
                   /\ Reply(i, 200)
                   /\ UNCHANGED order_items
                \/ Fails /\ Reply(i, 500) /\ UNCHANGED order_items
     /\ UNCHANGED <<orders, replied>>

Next009Record ==
  \/ SeqNext9
  \/ R9RecordOrder /\ UNCHANGED <<pending_orders, payments, cf_orders, co, clock, env>>

Spec009Record == Init9 /\ [][Next009Record]_vars

\* the rows of order_items of order o that hold the item of a cart line
RowsOf(o, line) ==
  {r \in DOMAIN order_items[o] : order_items[o][r].item_id = line.item}

\* C35: with the signatures verified, no store operation failing and
\* record-order called with the cart the order was created with, when every
\* request has been answered and a paid webhook delivery or a record-order
\* call for the order was answered 200, each line of that cart is in
\* order_items exactly once.
C35_EachLineOnce ==
  \A o \in OrderIds :
    (/\ env.webhook_secret
     /\ nfail = 0
     /\ cf_orders[o] # NoRow
     /\ \A i \in DOMAIN hs :
          ~Running(i) /\ (hs[i].kind = "record" => hs[i].cart = cf_orders[o])
     /\ \E i \in DOMAIN hs :
          /\ hs[i].o = o /\ hs[i].resp = 200
          /\ hs[i].kind = "record" \/ hs[i].status \in paidStatuses)
      => \A k \in DOMAIN cf_orders[o] :
           Cardinality(RowsOf(o, cf_orders[o][k])) = 1

----------------------------------------------------------------------------
(* Status-mirroring revision (part_000): create-order and webhook *)

\* create-order: the order is pre-recorded as 'Pending Payment'; an error of
\* the insert is logged and the gateway is called all the same
C0CreateOrder ==
  /\ \E o \in OrderIds :
       \/ /\ co[o].pc = "none" /\ cf_orders[o] = NoRow
          /\ \E cart \in Carts :
               /\ co' = [co EXCEPT ![o] = [pc |-> "gateway", cart |-> cart]]
               /\ \/ /\ orders[o] = NoRow
                     /\ orders' = [orders EXCEPT ![o] =
                           Row([status |-> "Pending Payment", payment_id |-> Null,
                                raw_cart_data |-> cart])]
                     /\ NoFail
                  \/ Fails /\ UNCHANGED orders
          /\ UNCHANGED cf_orders
       \/ /\ co[o].pc = "gateway"
          /\ cf_orders' = [cf_orders EXCEPT ![o] = co[o].cart]
          /\ co' = [co EXCEPT ![o].pc = "done"]
          /\ UNCHANGED <<orders, nfail>>
  /\ UNCHANGED <<order_items, pending_orders, payments, hs, replied, clock, env>>

\* verifyCashfreeWebhook(req) of this revision: the webhook secret, over
\* timestamp + rawBody
W0Verify(req) ==
  /\ env.webhook_secret
  /\ req.signature # NoSig
  /\ Hmac(WebhookSecret, req.timestamp \o Raw(req.body)) = req.signature

successStatuses == {"PAID", "SUCCESS", "CHARGED", "CAPTURED"}

\* a request that fails verification is answered 200 and dropped
W0Arrive ==
  /\ \E o \in Notifiable, pid \in SnapPaymentIds, st \in {"PAID", "FAILED"},
        kind \in {"valid", "tampered", "missing"} :
       LET req == Request(o, pid, st, kind, WebhookSecret)
           h == Handler("webhook", req, o, pid, st)
       IN IF W0Verify(req)
          THEN /\ Len(hs) < MaxCalls
               /\ hs' = Append(hs, [h EXCEPT !.pc = "select"])
               /\ UNCHANGED replied
          ELSE /\ replied' = Row([h EXCEPT !.pc = "done", !.resp = 200])
               /\ UNCHANGED hs
  /\ UNCHANGED <<orders, order_items, pending_orders, payments, cf_orders, co,
                 nfail, clock, env>>

\* select(..).single(): no row is an error, as is a failure of the store
W0Select ==
  \E i \in DOMAIN hs :
    /\ hs[i].pc = "select"
    /\ \/ /\ NoFail
          /\ IF orders[hs[i].o] = NoRow
             THEN Goto(i, "insert")
             ELSE IF /\ hs[i].status \in successStatuses
                     /\ orders[hs[i].o][1].status \in {"Preparing", "Success"}
                  THEN Reply(i, 200)
                  ELSE Goto(i, "update")
       \/ Fails /\ Goto(i, "insert")
    /\ UNCHANGED <<orders, order_items, pending_orders, payments, cf_orders, co,
                   replied, clock, env>>

\* after fetchErr: a minimal row is inserted, 'Preparing' for a success
\* status; the result of the insert is not read
W0Insert ==
  \E i \in DOMAIN hs :
    /\ hs[i].pc = "insert"
    /\ Reply(i, 200)
    /\ \/ /\ orders[hs[i].o] = NoRow
          /\ orders' = [orders EXCEPT ![hs[i].o] =
                Row([status |-> IF hs[i].status \in successStatuses
                                THEN "Preparing" ELSE hs[i].status,
                     payment_id |-> Null, raw_cart_data |-> <<>>])]
          /\ NoFail
       \/ /\ orders[hs[i].o] # NoRow      \* primary key violation
          /\ NoFail
          /\ UNCHANGED orders
       \/ Fails /\ UNCHANGED orders
    /\ UNCHANGED <<order_items, pending_orders, payments, cf_orders, co, replied,
                   clock, env>>

\* the update to 'Preparing' with the payment id, or to the status received;
\* an error is logged
W0Update ==
  \E i \in DOMAIN hs :
    /\ hs[i].pc = "update"
    /\ Reply(i, 200)
    /\ \/ /\ orders[hs[i].o] # NoRow
          /\ orders' = [orders EXCEPT ![hs[i].o] = Row(
                IF hs[i].status \in successStatuses
                THEN [@[1] EXCEPT !.status = "Preparing", !.payment_id = hs[i].pid]
                ELSE [@[1] EXCEPT !.status = hs[i].status])]
          /\ NoFail
       \/ Fails /\ UNCHANGED orders
    /\ UNCHANGED <<order_items, pending_orders, payments, cf_orders, co, replied,
                   clock, env>>

Spec000 ==
  PaInit /\ [][C0CreateOrder \/ W0Arrive \/ W0Select \/ W0Insert \/ W0Update]_vars

\* C18: a verified success notification for an order without a row in orders
\* is answered with a failure status, and no order is created as 'Preparing'.
C18_MissingOrderRedelivered ==
  [][\A i \in DOMAIN hs :
       (/\ StepOf(i)
        /\ hs[i].pc = "insert"
        /\ hs[i].status \in successStatuses
        /\ orders[hs[i].o] = NoRow)
         => /\ hs'[i].resp >= 400
            /\ orders'[hs[i].o] = NoRow]_vars

\* verify-order of this revision: the lookup found the order
V0Found_Never(order, dbErr) == FALSE

V0Found(order, dbErr) == ~dbErr /\ order # NoRow

\* /api/verify-order: the request without an orderId is answered 400; the
\* status is selected with .single(), and returned when the row was found;
\* otherwise the gateway is asked for the order, whose order_status is
\* returned; the gateway's error, as for an order it does not know, is 500.
\* rows and err keep what the lookup returned, status what was answered.
V0VerifyOrder ==
  /\ \/ /\ \E o \in OrderIds, orderId \in BOOLEAN :
             LET h == Handler("verify", [orderId |-> orderId], o, Null, "")
             IN IF orderId
                THEN /\ Len(hs) < MaxCalls
                     /\ hs' = Append(hs, [h EXCEPT !.pc = "lookup"])
                     /\ UNCHANGED replied
                ELSE /\ replied' = Row([h EXCEPT !.pc = "done", !.resp = 400])
                     /\ UNCHANGED hs
        /\ UNCHANGED nfail
     \/ \E i \in DOMAIN hs, failed \in BOOLEAN :
          /\ hs[i].kind = "verify" /\ hs[i].pc = "lookup"
          /\ IF failed THEN Fails ELSE NoFail
          /\ LET order == IF failed THEN NoRow ELSE orders[hs[i].o]
                 dbErr == failed \/ orders[hs[i].o] = NoRow
             IN IF V0Found(order, dbErr)
                THEN hs' = [hs EXCEPT ![i].pc = "done", ![i].resp = 200,
                                      ![i].rows = 1,
                                      ![i].status = order[1].status]
                ELSE hs' = [hs EXCEPT ![i].pc = "gateway", ![i].err = dbErr,
                                      ![i].rows = Len(order)]
          /\ UNCHANGED replied
     \/ \E i \in DOMAIN hs :
          /\ hs[i].kind = "verify" /\ hs[i].pc = "gateway"
          /\ \/ /\ cf_orders[hs[i].o] # NoRow
                /\ \E st \in {"ACTIVE", "PAID"} :
                     hs' = [hs EXCEPT ![i].pc = "done", ![i].resp = 200,
                                      ![i].status = st]
             \/ Reply(i, 500)
          /\ UNCHANGED <<replied, nfail>>
  /\ UNCHANGED <<orders, order_items, pending_orders, payments, cf_orders, co,
                 clock, env>>

Next000Verify ==
  C0CreateOrder \/ W0Arrive \/ W0Select \/ W0Insert \/ W0Update \/ V0VerifyOrder

Spec000Verify == PaInit /\ [][Next000Verify]_vars

\* C31 as stated: whenever an orders row of the order id exists, verify-order
\* returns the stored status; the gateway is asked only after a lookup that
\* erred or found no row; no step of verify-order writes to a store.
C31_StoredStatusWheneverRow ==
  [][\A i \in DOMAIN hs :
       (hs[i].kind = "verify" /\ StepOf(i))
         => /\ UNCHANGED <<orders, order_items, pending_orders, payments>>
            /\ (hs[i].pc = "lookup" /\ orders[hs[i].o] # NoRow)
                 => /\ hs'[i].pc = "done" /\ hs'[i].resp = 200
                    /\ hs'[i].status = orders[hs[i].o][1].status
            /\ hs'[i].pc = "gateway"
                 => (nfail' # nfail \/ orders[hs[i].o] = NoRow)]_vars

\* C31, amended: verify-order returns the stored status whenever its lookup
\* finds an orders row of the order id without an error; the gateway is asked
\* exactly when the lookup erred or found no row; no step of verify-order
\* writes to a store.
C31_StoredStatusWhenFound ==
  [][\A i \in DOMAIN hs :
       (hs[i].kind = "verify" /\ StepOf(i))
         => /\ UNCHANGED <<orders, order_items, pending_orders, payments>>
            /\ (hs[i].pc = "lookup" /\ orders[hs[i].o] # NoRow
                  /\ nfail' = nfail)
                 => /\ hs'[i].pc = "done" /\ hs'[i].resp = 200
                    /\ hs'[i].status = orders[hs[i].o][1].status
            /\ hs'[i].pc = "gateway"
                 <=> (hs[i].pc = "lookup"
                        /\ (nfail' # nfail \/ orders[hs[i].o] = NoRow))]_vars

\* verify-order has answered from the store, for an order the webhook has
\* moved on from 'Pending Payment'
C31_Witness ==
  \E i \in DOMAIN hs :
    /\ hs[i].kind = "verify" /\ hs[i].pc = "done" /\ hs[i].rows = 1
    /\ hs[i].resp = 200 /\ hs[i].status = "Preparing"

\* the sum of price * qty over rows of order_items
RECURSIVE ItemsTotal(_)
ItemsTotal(rows) ==
  IF rows = <<>> THEN 0
  ELSE Head(rows).price * Head(rows).qty + ItemsTotal(Tail(rows))

\* C25: the line items the webhook has inserted for an order add up to the
\* total_amount that create-order stored on the order.
C25_ItemsAddUpToTotal ==
  \A o \in OrderIds :
    (orders[o] # NoRow /\ order_items[o] # <<>>)
      => ItemsTotal(order_items[o]) = orders[o][1].total_amount

----------------------------------------------------------------------------
(* Pre-recorded revision of part_001: create-order *)

\* Number(amount), for the JSON values a client may send as amount: a number,
\* a string of digits, any other string, a boolean, null, or nothing
\* (undefined); n is the number, the number the digits spell, or 1 for true.
\* The result is NaN for undefined and for a string that spells no number,
\* 0 for null and false, 1 for true
Number(v) ==
  CASE v.t \in {"number", "digits", "boolean"} -> [nan |-> FALSE, n |-> v.n]
    [] v.t = "null" -> [nan |-> FALSE, n |-> 0]
    [] OTHER -> [nan |-> TRUE, n |-> 0]

\* create-order: the three tests of the body, each answered 400; then the
\* insert of the order, whose error is answered 500; then the gateway call.
\* The order id is 'order_' + Date.now(): a second request in the same
\* millisecond gets the same id, and its insert violates the primary key
P1CreateOrder ==
  \/ /\ \E uid \in {"u1", Null}, array \in BOOLEAN, cart \in Carts \cup {<<>>},
           amount \in [t : {"number"}, n : {-5, 0, 130}]
                        \cup [t : {"digits"}, n : {130}]
                        \cup [t : {"boolean"}, n : {1}]
                        \cup [t : {"text", "null", "undefined"}, n : {0}] :
          LET body == [uid |-> uid, array |-> array, cart |-> cart, amount |-> amount]
              orderAmount == Number(amount)
              h == Handler("create", body, "order_1", Null, "")
          IN IF \/ uid = Null
                \/ ~array \/ Len(cart) = 0
                \/ orderAmount.nan \/ orderAmount.n <= 0
             THEN /\ replied' = Row([h EXCEPT !.pc = "done", !.resp = 400])
                  /\ UNCHANGED hs
             ELSE /\ Len(hs) < MaxCalls
                  /\ hs' = Append(hs, [h EXCEPT !.pc = "insert", !.cart = cart])
                  /\ UNCHANGED replied
     /\ UNCHANGED <<orders, cf_orders, nfail>>
  \/ /\ \E i \in DOMAIN hs :
          /\ hs[i].kind = "create" /\ hs[i].pc = "insert"
          /\ \/ /\ orders[hs[i].o] = NoRow
                /\ orders' = [orders EXCEPT ![hs[i].o] =
                      Row([status |-> "Pending Payment",
                           total_amount |-> Number(hs[i].req.amount).n,
                           raw_cart_data |-> hs[i].cart])]
                /\ hs' = [hs EXCEPT ![i].pc = "gateway", ![i].rows = 1]
                /\ NoFail
             \/ /\ orders[hs[i].o] # NoRow
                /\ Reply(i, 500)
                /\ NoFail
                /\ UNCHANGED orders
             \/ Fails /\ Reply(i, 500) /\ UNCHANGED orders
     /\ UNCHANGED <<cf_orders, replied>>
  \/ /\ \E i \in DOMAIN hs :
          /\ hs[i].kind = "create" /\ hs[i].pc = "gateway"
          /\ \/ /\ cf_orders' = [cf_orders EXCEPT ![hs[i].o] = hs[i].cart]
                /\ Reply(i, 200)
             \/ /\ Reply(i, 500)        \* the gateway answers with an error
                /\ UNCHANGED cf_orders
     /\ UNCHANGED <<orders, replied, nfail>>

Next001 ==
  P1CreateOrder /\ UNCHANGED <<order_items, pending_orders, payments, co, clock, env>>

Spec001 == PaInit /\ [][Next001]_vars

\* the body passes what the contract asks of it: a user id, a non-empty
\* array as cart, a number greater than 0 as amount
WellFormed(body) ==
  /\ body.uid # Null
  /\ body.array /\ Len(body.cart) > 0
  /\ body.amount.t = "number" /\ body.amount.n > 0

\* C22: a request without user.uid, with a cart that is not a non-empty
\* array, or with an amount that is not a number greater than 0 is answered
\* 400 and goes no further: no handler of such a request reaches the insert
\* or the gateway call.
C22_InvalidRejected ==
  /\ \A i \in DOMAIN hs : hs[i].kind = "create" => WellFormed(hs[i].req)
  /\ \A k \in DOMAIN replied : ~WellFormed(replied[k].req) => replied[k].resp = 400

----------------------------------------------------------------------------
(* cart_json revision (part_009): the amounts of create-order *)

\* Amounts are integers in minor units, so that 0.01 is 1.  The bodies a
\* client may send: a cart of Carts with an amount that is a number, a
\* string of digits, another string, or missing; the empty cart, a cart that
\* adds up to 0 and a cart with a negative price; a body without user.uid.
Bodies9 ==
  [uid : {"u1"}, cart : Carts,
   amount : [t : {"number"}, n : {100, 101, 105}]
              \cup [t : {"digits"}, n : {103}]
              \cup [t : {"text", "undefined"}, n : {0}]]
  \cup [uid : {"u1"},
        cart : {<<>>, <<[item |-> "A", qty |-> 0, price |-> 50]>>,
                <<LineB, [item |-> "C", qty |-> 1, price |-> -1]>>},
        amount : [t : {"undefined"}, n : {0}]]
  \cup [uid : {Null}, cart : {<<LineA>>},
        amount : [t : {"number"}, n : {100}]]

\* computeAmountFromCart(cart): the reduce over the lines, from 0; thrown
\* stands for the Error of a negative price or quantity
RECURSIVE computeAmountFromCart(_)
computeAmountFromCart(cart) ==
  IF cart = <<>> THEN [thrown |-> FALSE, sum |-> 0]
  ELSE LET rest == computeAmountFromCart(SubSeq(cart, 1, Len(cart) - 1))
           line == cart[Len(cart)]
       IN IF rest.thrown \/ line.price < 0 \/ line.qty < 0
          THEN [thrown |-> TRUE, sum |-> 0]
          ELSE [thrown |-> FALSE, sum |-> rest.sum + line.price * line.qty]

\* the test of the client's amount, made when the body has one: NaN, or
\* further than 0.01 from the server's amount.  The subtraction is one of
\* floating-point numbers, and for a distance of 0.01 its result is above
\* 0.01 for some pairs and not for others: above tells which.
AmountMismatch_Never(amount, serverAmount, above) == FALSE

AmountMismatch(amount, serverAmount, above) ==
  /\ amount.t # "undefined"
  /\ LET clientAmount == Number(amount)
         distance == IF clientAmount.n >= serverAmount
                     THEN clientAmount.n - serverAmount
                     ELSE serverAmount - clientAmount.n
     IN \/ clientAmount.nan
        \/ distance > 1
        \/ distance = 1 /\ above

\* create-order: the tests of the body, each answered 400; the insert of the
\* order, whose error is logged; the gateway call, which refuses an order id
\* it knows.  The gateway keeps the payload it accepted.
C9CreateOrder ==
  \/ /\ \E body \in Bodies9, above \in BOOLEAN :
          LET computed == computeAmountFromCart(body.cart)
              serverAmount == computed.sum
              h == Handler("create", body, "order_1", Null, "")
          IN IF \/ body.uid = Null
                \/ Len(body.cart) = 0
                \/ computed.thrown
                \/ serverAmount <= 0
                \/ AmountMismatch(body.amount, serverAmount, above)
             THEN /\ replied' = Row([h EXCEPT !.pc = "done", !.resp = 400])
                  /\ UNCHANGED hs
             ELSE /\ Len(hs) < MaxCalls
                  /\ hs' = Append(hs, [h EXCEPT !.pc = "insert",
                                                !.cart = body.cart,
                                                !.rows = serverAmount])
                  /\ UNCHANGED replied
     /\ UNCHANGED <<orders, cf_orders, nfail>>
  \/ /\ \E i \in DOMAIN hs :
          /\ hs[i].kind = "create" /\ hs[i].pc = "insert"
          /\ Goto(i, "gateway")
          /\ \/ /\ orders[hs[i].o] = NoRow
                /\ orders' = [orders EXCEPT ![hs[i].o] =
                      Row([status |-> "Pending", total_amount |-> hs[i].rows,
                           cart_json |-> hs[i].cart])]
                /\ NoFail
             \/ /\ orders[hs[i].o] # NoRow
                /\ NoFail
                /\ UNCHANGED orders
             \/ Fails /\ UNCHANGED orders
     /\ UNCHANGED <<cf_orders, replied>>
  \/ /\ \E i \in DOMAIN hs :
          /\ hs[i].kind = "create" /\ hs[i].pc = "gateway"
          /\ \/ /\ cf_orders[hs[i].o] = NoRow
                /\ cf_orders' = [cf_orders EXCEPT ![hs[i].o] =
                      Row([order_id |-> hs[i].o, order_amount |-> hs[i].rows])]
                /\ Reply(i, 200)
             \/ /\ Reply(i, 500)        \* the gateway answers with an error
                /\ UNCHANGED cf_orders
     /\ UNCHANGED <<orders, replied, nfail>>

Next009Amount ==
  C9CreateOrder /\ UNCHANGED <<order_items, pending_orders, payments, co, clock, env>>

Spec009Amount == PaInit /\ [][Next009Amount]_vars

\* the sum of price * quantity over the lines of a cart
RECURSIVE CartTotal(_)
CartTotal(cart) ==
  IF cart = <<>> THEN 0
  ELSE Head(cart).price * Head(cart).qty + CartTotal(Tail(cart))

\* the body carries an amount further than 0.01 from the sum over its cart
Differs(body) ==
  /\ body.amount.t \in {"number", "digits"}
  /\ \/ body.amount.n - CartTotal(body.cart) > 1
     \/ CartTotal(body.cart) - body.amount.n > 1

\* C33: the total_amount create-order stores and the order_amount it sends
\* to the gateway are the sum of price * quantity over the cart of the
\* request; a request whose amount differs from that sum by more than 0.01
\* is answered 400 and reaches neither the insert nor the gateway call.
C33_AmountIsCartSum ==
  /\ \A i \in DOMAIN hs : ~Differs(hs[i].req)
  /\ \A k \in DOMAIN replied :
       Differs(replied[k].req) => replied[k].resp = 400
  /\ \A o \in OrderIds :
       /\ orders[o] # NoRow
            => orders[o][1].total_amount = CartTotal(orders[o][1].cart_json)
       /\ cf_orders[o] # NoRow
            => \E i \in DOMAIN hs :
                 /\ hs[i].o = o /\ hs[i].pc = "done" /\ hs[i].resp = 200
                 /\ cf_orders[o][1].order_amount = CartTotal(hs[i].req.cart)

\* an order is stored and known to the gateway, and a request whose amount
\* is off by more than 0.01 has been answered
C33_Witness ==
  /\ orders["order_1"] # NoRow /\ cf_orders["order_1"] # NoRow
  /\ replied # <<>> /\ Differs(replied[1].req)
  /\ replied[1].req.uid # Null /\ CartTotal(replied[1].req.cart) > 0

----------------------------------------------------------------------------
(* src/index.js, first revision (lines 1-186) *)

\* create-order: the order is inserted as 'Pending Payment' under an id of
\* the store, then its line items, then the gateway is called with that id;
\* an error of either insert is thrown and answered 500
X1CreateOrder ==
  /\ \E o \in OrderIds :
       \/ /\ co[o].pc = "none" /\ orders[o] = NoRow
          /\ \E cart \in Carts :
               \/ /\ NoFail
                  /\ orders' = [orders EXCEPT ![o] =
                                  Row([status |-> "Pending Payment"])]
                  /\ co' = [co EXCEPT ![o] = [pc |-> "items", cart |-> cart]]
               \/ /\ Fails
                  /\ co' = [co EXCEPT ![o].pc = "done"]
                  /\ UNCHANGED orders
          /\ UNCHANGED <<order_items, cf_orders>>
       \/ /\ co[o].pc = "items"
          /\ \/ /\ NoFail
                /\ order_items' = [order_items EXCEPT ![o] =
                                     @ \o W9ItemsPayload(o, co[o].cart)]
                /\ co' = [co EXCEPT ![o].pc = "gateway"]
             \/ /\ Fails
                /\ co' = [co EXCEPT ![o].pc = "done"]
                /\ UNCHANGED order_items
          /\ UNCHANGED <<orders, cf_orders>>
       \/ /\ co[o].pc = "gateway"
          /\ cf_orders' = [cf_orders EXCEPT ![o] = co[o].cart]
          /\ co' = [co EXCEPT ![o].pc = "done"]
          /\ UNCHANGED <<orders, order_items, nfail>>
  /\ UNCHANGED <<pending_orders, payments, hs, replied, clock, env>>

\* the bytes of an event that are signed
Raw1(body) == body.type \o "|" \o body.order_id \o "|" \o body.order_status

\* the test of the headers and of the signature: the webhook secret, over
\* timestamp + payload
X1Verified(req) ==
  /\ req.signature # NoSig /\ req.timestamp # "" /\ env.webhook_secret
  /\ Hmac(WebhookSecret, req.timestamp \o Raw1(req.body)) = req.signature

\* .eq('status', 'Pending Payment') of the update
X1Matches_Any(row) == TRUE

X1Matches(row) == row.status = "Pending Payment"

\* the webhook: a request that fails the test of the headers or of the
\* signature is answered 400; an event other than PAYMENT_SUCCESS_WEBHOOK
\* with order_status PAID is answered 200; otherwise the order is updated to
\* 'Preparing' where it is 'Pending Payment', the error of the update is
\* logged, and the answer is 200
X1Webhook ==
  /\ \/ /\ \E o \in {x \in OrderIds : cf_orders[x] # NoRow},
              type \in {"PAYMENT_SUCCESS_WEBHOOK", "PAYMENT_FAILED_WEBHOOK"},
              st \in {"PAID", "ACTIVE"},
              kind \in {"valid", "tampered", "missing"} :
             LET body == [type |-> type, order_id |-> o, order_status |-> st]
                 req == [timestamp |-> "t1", body |-> body,
                         signature |->
                           CASE kind = "valid" ->
                                  Hmac(WebhookSecret, "t1" \o Raw1(body))
                             [] kind = "tampered" ->
                                  Hmac(WebhookSecret, "t1" \o Raw1(
                                    [body EXCEPT !.order_status = "ACTIVE",
                                                 !.type = "PAYMENT_FAILED_WEBHOOK"]))
                             [] OTHER -> NoSig]
                 h == Handler("webhook", req, o, Null, st)
             IN IF ~X1Verified(req)
                THEN /\ replied' = Row([h EXCEPT !.pc = "done", !.resp = 400])
                     /\ UNCHANGED hs
                ELSE /\ Len(hs) < MaxCalls
                     /\ UNCHANGED replied
                     /\ hs' = Append(hs,
                          IF type = "PAYMENT_SUCCESS_WEBHOOK" /\ st = "PAID"
                          THEN [h EXCEPT !.pc = "update"]
                          ELSE [h EXCEPT !.pc = "done", !.resp = 200])
        /\ UNCHANGED <<orders, nfail>>
     \/ /\ \E i \in DOMAIN hs :
             /\ hs[i].kind = "webhook" /\ hs[i].pc = "update"
             /\ Reply(i, 200)
             /\ \/ /\ NoFail
                   /\ orders' = [orders EXCEPT ![hs[i].o] =
                         IF @ # NoRow /\ X1Matches(@[1])
                         THEN Row([@[1] EXCEPT !.status = "Preparing"])
                         ELSE @]
                \/ Fails /\ UNCHANGED orders
        /\ UNCHANGED replied
  /\ UNCHANGED <<order_items, pending_orders, payments, cf_orders, co, clock, env>>

\* Elsewhere the order moves on: the counter marks a 'Preparing' order
\* 'Completed' (a status that record-order of part_009 reads back).
X1Elsewhere ==
  /\ \E o \in OrderIds :
       /\ orders[o] # NoRow /\ orders[o][1].status = "Preparing"
       /\ orders' = [orders EXCEPT ![o] = Row([@[1] EXCEPT !.status = "Completed"])]
  /\ UNCHANGED <<order_items, pending_orders, payments, cf_orders, co, hs,
                 replied, nfail, clock, env>>

X1Next == X1CreateOrder \/ X1Webhook \/ X1Elsewhere

SpecIndex1 == Init9 /\ [][X1Next]_vars

\* C39: a step of the webhook that changes the orders table changes one
\* order from 'Pending Payment' to 'Preparing', and belongs to a verified
\* PAYMENT_SUCCESS_WEBHOOK event with order_status PAID for that order; an
\* order in another status is left as it is by every delivery, whatever
\* runs beside it, and no step of the webhook writes anything else.
C39_OnlyPendingToPreparing ==
  [][(hs' # hs \/ replied' # replied)
       => /\ UNCHANGED <<order_items, pending_orders, payments>>
          /\ \A o \in OrderIds :
               orders'[o] # orders[o]
                 => /\ orders[o] # NoRow
                    /\ orders[o][1].status = "Pending Payment"
                    /\ orders'[o] = Row([orders[o][1] EXCEPT !.status = "Preparing"])
                    /\ \E i \in DOMAIN hs :
                         /\ StepOf(i) /\ hs[i].o = o
                         /\ X1Verified(hs[i].req)
                         /\ hs[i].req.body.type = "PAYMENT_SUCCESS_WEBHOOK"
                         /\ hs[i].req.body.order_status = "PAID"]_vars

\* a delivery of the success event was answered after the order had moved
\* on to 'Completed', and left it there
C39_Witness ==
  \E i, j \in DOMAIN hs :
    /\ i < j /\ Done(i) /\ Done(j)
    /\ hs[j].req.body.type = "PAYMENT_SUCCESS_WEBHOOK" /\ hs[j].status = "PAID"
    /\ orders[hs[j].o] # NoRow /\ orders[hs[j].o][1].status = "Completed"

----------------------------------------------------------------------------
(* Ledger-gated revision: the signature check with parts missing *)

\* The webhook up to its first store call, for requests that lack the
\* timestamp header, the signature header or the body, on a server with or
\* without CASHFREE_CLIENT_SECRET. createHmac throws for an undefined key:
\* the catch block answers 500. A missing timestamp enters the signed string
\* as 'undefined', a missing body as the text of the empty object that the
\* parser leaves in req.body.
L3SignatureCheck ==
  /\ \E o \in {x \in OrderIds : cf_orders[x] # NoRow}, pid \in SnapPaymentIds,
        kind \in {"valid", "missing"}, timestamp \in {"t1", "undefined"},
        empty \in BOOLEAN :
       LET sent == Request(o, pid, "SUCCESS", kind, ClientSecret)
           req == [timestamp |-> timestamp, body |-> sent.body,
                   signature |-> sent.signature, empty |-> empty]
           payloadStr == IF empty THEN "[object Object]" ELSE Raw(req.body)
           expected == Hmac(ClientSecret, timestamp \o payloadStr)
           h == L3Handler(req)
       IN IF ~env.client_secret
          THEN /\ replied' = Row([h EXCEPT !.pc = "done", !.resp = 500])
               /\ UNCHANGED hs
          ELSE IF req.signature = NoSig \/ expected # req.signature
          THEN /\ replied' = Row([h EXCEPT !.pc = "done", !.resp = 400])
               /\ UNCHANGED hs
          ELSE /\ Len(hs) < MaxDeliveries
               /\ \A i \in DOMAIN hs : ~Running(i)
               /\ hs' = Append(hs, [h EXCEPT !.pc = "ledgerSelect"])
               /\ UNCHANGED replied
  /\ UNCHANGED <<orders, order_items, pending_orders, payments, cf_orders, co,
                 nfail, clock, env>>

Next003Sig == L3SignatureCheck \/ L3Steps

\* the server is started with or without CASHFREE_CLIENT_SECRET
L3SigInit ==
  /\ EmptyStore
  /\ env \in [webhook_secret : {TRUE}, items_unique : {TRUE}, client_secret : BOOLEAN]

Spec003Sig == L3SigInit /\ [][Next003Sig]_vars

\* the request lacks a header or its body, or the server its secret
Incomplete(req) ==
  req.timestamp = "undefined" \/ req.signature = NoSig \/ req.empty \/ ~env.client_secret

\* C28: a request that lacks the timestamp header, the signature header or
\* the body, or that arrives when the signing secret is not set, is answered
\* on the invalid-signature path (400): it neither reaches the store nor the
\* exception handler (500).
C28_MissingPartsRejected ==
  /\ \A i \in DOMAIN hs : ~Incomplete(hs[i].req)
  /\ \A k \in DOMAIN replied : Incomplete(replied[k].req) => replied[k].resp = 400

----------------------------------------------------------------------------
(* Further claims on the ledger-gated revision *)

----------------------------------------------------------------------------
(* Further claims on the snapshot-based revision *)

\* delivery i wrote the orders row and was answered 500: its insert of the
\* line items failed
HalfDone(i) == Done(i) /\ hs[i].resp = 500 /\ hs[i].rows = 1

\* C11: when a delivery inserted the orders row and its order_items insert
\* failed (500), and no other store operation of the run fails, the next
\* delivery of the same notification returns 200 and leaves the order with
\* the line items of the snapshot and no snapshot in pending_orders.
C11_HalfDoneRepaired ==
  \A i, j \in DOMAIN hs :
    (j = i + 1 /\ hs[i].req = hs[j].req /\ HalfDone(i) /\ Done(j) /\ nfail = 1)
      => /\ hs[j].resp = 200
         /\ orders[hs[j].o] # NoRow
         /\ order_items[hs[j].o] = CartItems(hs[j].o)
         /\ pending_orders[hs[j].o] = NoRow

C11_Witness ==
  \E i, j \in DOMAIN hs :
    /\ j = i + 1 /\ hs[i].req = hs[j].req /\ HalfDone(i) /\ Done(j) /\ nfail = 1
    /\ hs[j].resp = 200
    /\ Len(order_items[hs[j].o]) = 2
    /\ pending_orders[hs[j].o] = NoRow

\* C29: the payment status is compared without regard to letter case: no
\* verified notification whose status spells SUCCESS in some case is answered
\* as a non-success and dropped.
C29_StatusCaseFolded ==
  \A k \in DOMAIN replied :
    (SnapSignatureOk(replied[k].req) /\ ToUpper9(replied[k].status) = "SUCCESS")
      => replied[k].resp # 200

\* C23: when create-order returns its success response for an order, the
\* pending_orders snapshot of that order, holding the request's cart, is in
\* the store.
C23_SessionHasSnapshot ==
  [][\A o \in OrderIds :
       (co[o].pc # "done" /\ co'[o].pc = "done")
         => pending_orders'[o] = Row([id |-> o, cart |-> cf_orders[o]])]_vars

\* C38: in every state, with deliveries interleaved and store operations
\* failing, an order that has a row in orders and no row in order_items
\* still has its snapshot in pending_orders (an order gets its row only from
\* the snapshot create-order wrote): the snapshot is deleted only after the
\* line items were inserted.
C38_SnapshotOutlivesItems ==
  \A o \in OrderIds :
    (orders[o] # NoRow /\ order_items[o] = <<>>) => pending_orders[o] # NoRow

\* a delivery has inserted the order and failed to insert its line items
C38_Witness ==
  \E i \in DOMAIN hs :
    /\ HalfDone(i)
    /\ orders[hs[i].o] # NoRow /\ order_items[hs[i].o] = <<>>
    /\ pending_orders[hs[i].o] # NoRow

----------------------------------------------------------------------------
(* Snapshot-based revision: redelivery until 200 *)

\* The gateway delivers the signed SUCCESS notification of an order again,
\* when the last delivery was answered, as long as none was answered 200.
SnapRedeliver ==
  /\ SnapAccept(TRUE)
  /\ \A i \in DOMAIN hs : hs[i].resp # 200

SnapLiveNext == SnapRedeliver \/ SnapSteps

\* Every request that can take a step takes one, and the gateway does
\* deliver again; a store operation fails MaxFails times at most, so that
\* every one of them succeeds in the end.
SpecSnapLive == SnapInit /\ [][SnapLiveNext]_vars /\ WF_vars(SnapLiveNext)

\* C37: from the moment create-order has written the snapshot of an order,
\* before the first delivery, the run leads to a state in which a delivery
\* was answered 200, the order is 'Preparing' in orders, every line of its
\* cart is in order_items and its snapshot is deleted.
C37_EventuallySettled ==
  \A o \in OrderIds :
    (co[o].pc = "done" /\ pending_orders[o] # NoRow /\ hs = <<>>)
      ~> (/\ Acked(o)
          /\ orders[o] # NoRow /\ orders[o][1].status = "Preparing"
          /\ HasItemsOf(o, cf_orders[o])
          /\ pending_orders[o] = NoRow)

----------------------------------------------------------------------------
(* Snapshot-based revision: the order ids of create-order *)

\* The order id is 'order_' + Date.now(), an injective function of the
\* millisecond the request is handled in: here the gateway's orders and the
\* snapshots are keyed by that millisecond, 1..MaxCalls.

\* create-order with its id read from the clock, which moves on between
\* requests or does not: the gateway call, which fails for an order id the
\* gateway knows (and for other reasons), then the upsert of the snapshot,
\* whose error is logged
SnapCreateOrder ==
  /\ \/ /\ clock < MaxCalls           \* Date.now() moves on
        /\ clock' = clock + 1
        /\ UNCHANGED <<hs, cf_orders, pending_orders, nfail>>
     \/ /\ Len(hs) < MaxCalls
        /\ \E cart \in Carts :
             hs' = Append(hs, [Handler("create", [cart |-> cart], clock, Null, "")
                                 EXCEPT !.pc = "gateway", !.cart = cart])
        /\ UNCHANGED <<cf_orders, pending_orders, nfail, clock>>
     \/ \E i \in DOMAIN hs :
          /\ hs[i].pc = "gateway"
          /\ \/ /\ cf_orders[hs[i].o] = NoRow
                /\ cf_orders' = [cf_orders EXCEPT ![hs[i].o] = hs[i].cart]
                /\ Goto(i, "snapshot")
             \/ /\ Reply(i, 500)
                /\ UNCHANGED cf_orders
          /\ UNCHANGED <<pending_orders, nfail, clock>>
     \/ \E i \in DOMAIN hs :
          /\ hs[i].pc = "snapshot"
          /\ \/ /\ pending_orders' = [pending_orders EXCEPT ![hs[i].o] =
                      Row([id |-> hs[i].o, cart |-> hs[i].cart])]
                /\ Reply(i, 200)
                /\ NoFail
             \/ /\ Fails
                /\ hs' = [hs EXCEPT ![i].pc = "done", ![i].resp = 200, ![i].err = TRUE]
                /\ UNCHANGED pending_orders
          /\ UNCHANGED <<cf_orders, clock>>
  /\ UNCHANGED <<orders, order_items, payments, co, replied, env>>

\* the empty store, with the two tables that are keyed by order id indexed
\* by the millisecond of the id
SnapIdsInit ==
  /\ orders = [o \in OrderIds |-> NoRow]
  /\ order_items = [o \in OrderIds |-> <<>>]
  /\ pending_orders = [t \in 1..MaxCalls |-> NoRow]
  /\ payments = [p \in SnapPaymentIds |-> 0]
  /\ cf_orders = [t \in 1..MaxCalls |-> NoRow]
  /\ co = [o \in OrderIds |-> [pc |-> "none", cart |-> <<>>]]
  /\ hs = <<>>
  /\ replied = <<>>
  /\ nfail = 0
  /\ clock = 1
  /\ env = [webhook_secret |-> TRUE, items_unique |-> TRUE]

SpecSnapIds == SnapIdsInit /\ [][SnapCreateOrder]_vars

\* C24: two create-order requests never obtain the same order id, and the
\* snapshot a request has written stays the one of its own cart.
C24_DistinctOrderIds ==
  /\ \A i, j \in DOMAIN hs : i # j => hs[i].o # hs[j].o
  /\ \A i \in DOMAIN hs :
       (Done(i) /\ hs[i].resp = 200 /\ ~hs[i].err)
         => pending_orders[hs[i].o] = Row([id |-> hs[i].o, cart |-> hs[i].cart])

----------------------------------------------------------------------------
(* Snapshot-based revision: a notification that names no order *)

\* data.order.order_id is absent: orderId is undefined, and the handler reads
\* nothing else of the order before it tests the payment status. The request
\* is answered at once (400 for a bad signature, 200 for a status other than
\* SUCCESS) or goes on to the payments upsert.
SnapNoIdArrive ==
  /\ Len(hs) < MaxDeliveries
  /\ \A i \in DOMAIN hs : ~Running(i)
  /\ \E pid \in SnapPaymentIds, st \in {"SUCCESS", "FAILED"}, kind \in {"valid", "tampered"} :
       LET req == Request(Null, pid, st, kind, ClientSecret)
           h == [kind |-> "webhook", req |-> req, pc |-> "noIdUpsert", o |-> Null,
                 pid |-> pid, status |-> st, resp |-> 0, cart |-> <<>>,
                 rows |-> 0, err |-> FALSE, snap |-> FALSE]
       IN IF SnapSignatureOk(req) /\ st = "SUCCESS"
          THEN hs' = Append(hs, h) /\ UNCHANGED replied
          ELSE /\ replied' = Row([h EXCEPT !.pc = "done",
                                   !.resp = IF SnapSignatureOk(req) THEN 200 ELSE 400])
               /\ UNCHANGED hs
  /\ UNCHANGED <<orders, order_items, pending_orders, payments, cf_orders, co,
                 nfail, clock, env>>

\* the payments row is written with order_id undefined
SnapNoIdPayUpsert ==
  \E i \in DOMAIN hs :
    /\ hs[i].pc = "noIdUpsert"
    /\ \/ /\ payments' = [payments EXCEPT ![hs[i].pid] = 1]
          /\ Goto(i, "noIdSelect")
          /\ NoFail
       \/ /\ Fails
          /\ Reply(i, 500)
          /\ UNCHANGED payments
    /\ UNCHANGED <<orders, order_items, pending_orders, cf_orders, co, replied, clock, env>>

\* .eq('id', undefined) matches no row of orders, and then no row of
\* pending_orders: the select's error is not read, the fetch answers 500 for
\* an error as for a missing snapshot
SnapNoIdLookup ==
  \E i \in DOMAIN hs :
    /\ hs[i].pc \in {"noIdSelect", "noIdFetch"}
    /\ IF hs[i].pc = "noIdSelect" THEN Goto(i, "noIdFetch") ELSE Reply(i, 500)
    /\ NoFail \/ Fails
    /\ UNCHANGED <<orders, order_items, pending_orders, payments, cf_orders, co,
                   replied, clock, env>>

\* the requests of SpecSnapSeq and, among them, notifications without order id
SpecSnapNoId ==
  SnapInit /\ [][SnapSeqNext \/ SnapNoIdArrive \/ SnapNoIdPayUpsert \/ SnapNoIdLookup]_vars

\* C13: a correctly signed notification whose payload names no order is
\* answered 200, and its handler writes nothing to payments, orders,
\* order_items or pending_orders.
C13_NoOrderIdNoWrite ==
  [][\A i \in DOMAIN hs :
       (StepOf(i) /\ hs[i].o = Null)
         => /\ payments' = payments
            /\ orders' = orders
            /\ order_items' = order_items
            /\ pending_orders' = pending_orders
            /\ hs'[i].pc = "done" => hs'[i].resp = 200]_vars

----------------------------------------------------------------------------
(* Pre-recorded revision (part_008): create-order and webhook *)

\* the order is recorded with its cart before the gateway is called; an
\* error of the insert ends the request with 500
C8InsertOrder ==
  \E o \in OrderIds, cart \in Carts, orderAmount \in {100, 103} :
    /\ cf_orders[o] = NoRow
    /\ co[o].pc = "none"
    /\ \/ /\ orders[o] = NoRow
          /\ orders' = [orders EXCEPT ![o] =
                Row([status |-> "Pending Payment", payment_id |-> Null,
                     total_amount |-> orderAmount, raw_cart_data |-> cart])]
          /\ co' = [co EXCEPT ![o] = [pc |-> "gateway", cart |-> cart]]
          /\ NoFail
       \/ /\ Fails
          /\ co' = [co EXCEPT ![o].pc = "done"]
          /\ UNCHANGED orders
    /\ UNCHANGED <<order_items, pending_orders, payments, cf_orders, hs, replied,
                   clock, env>>

C8CreateSession ==
  \E o \in OrderIds :
    /\ co[o].pc = "gateway"
    /\ cf_orders' = [cf_orders EXCEPT ![o] = co[o].cart]
    /\ co' = [co EXCEPT ![o].pc = "done"]
    /\ UNCHANGED <<orders, order_items, pending_orders, payments, hs, replied,
                   nfail, clock, env>>

\* order_status of the notifications of the gateway
Tokens8 == {"PAID", "FAILED", "ACTIVE"}

verifyCashfreeWebhook(req) ==
  /\ req.signature # NoSig
  /\ Hmac(ClientSecret, req.timestamp \o Raw(req.body)) = req.signature

\* notifications with entity 'order' and an order id; payment_status of the
\* body stands for order_status
W8Requests ==
  {Request(o, pid, st, kind, ClientSecret) :
     o \in {x \in OrderIds : cf_orders[x] # NoRow}, pid \in SnapPaymentIds,
     st \in Tokens8, kind \in {"valid", "tampered", "missing"}}

W8Handler(req) ==
  Handler("webhook", req, req.body.order_id, req.body.cf_payment_id,
          req.body.payment_status)

\* a request that fails the verification is answered 200
W8Reject ==
  /\ \E req \in W8Requests :
       /\ ~verifyCashfreeWebhook(req)
       /\ replied' = Row([W8Handler(req) EXCEPT !.pc = "done", !.resp = 200])
  /\ UNCHANGED <<orders, order_items, pending_orders, payments, cf_orders, co,
                 hs, nfail, clock, env>>

\* serial: the request comes when every earlier one has been answered
W8Accept(serial) ==
  /\ Len(hs) < MaxCalls
  /\ serial => \A i \in DOMAIN hs : ~Running(i)
  /\ \E req \in W8Requests :
       /\ verifyCashfreeWebhook(req)
       /\ hs' = Append(hs, [W8Handler(req) EXCEPT !.pc = "select"])
  /\ UNCHANGED <<orders, order_items, pending_orders, payments, cf_orders, co,
                 replied, nfail, clock, env>>

W8Paid(st) == st = "PAID" \/ st = "SUCCESS"

\* the fetch of the pre-recorded order and the branch on what it returned:
\* no row or an error, 200; a paid notification for an order that is not
\* 'Pending Payment', 200; for one whose raw_cart_data is not a non-empty
\* array, on to the mark of the missing cart; otherwise on to the write
W8Select ==
  \E i \in DOMAIN hs :
    /\ hs[i].pc = "select"
    /\ \/ /\ NoFail
          /\ LET o == hs[i].o
             IN IF orders[o] = NoRow
                THEN Reply(i, 200)
                ELSE IF W8Paid(hs[i].status)
                THEN IF orders[o][1].status # "Pending Payment"
                     THEN Reply(i, 200)
                     ELSE IF Len(orders[o][1].raw_cart_data) = 0
                     THEN Goto(i, "missingCart")
                     ELSE hs' = [hs EXCEPT ![i].pc = "update",
                                           ![i].cart = orders[o][1].raw_cart_data]
                ELSE Goto(i, "mark")
       \/ Fails /\ Reply(i, 200)
    /\ UNCHANGED <<orders, order_items, pending_orders, payments, cf_orders, co,
                   replied, clock, env>>

\* update({ status: 'Preparing', payment_id }); an error is thrown and the
\* catch answers 200
W8Update ==
  \E i \in DOMAIN hs :
    /\ hs[i].pc = "update"
    /\ \/ /\ NoFail
          /\ orders' = [orders EXCEPT ![hs[i].o] =
                Row([@[1] EXCEPT !.status = "Preparing", !.payment_id = hs[i].pid])]
          /\ hs' = [hs EXCEPT ![i].pc = "items", ![i].rows = 1]
       \/ /\ Fails
          /\ hs' = [hs EXCEPT ![i].pc = "done", ![i].resp = 200, ![i].err = TRUE]
          /\ UNCHANGED orders
    /\ UNCHANGED <<order_items, pending_orders, payments, cf_orders, co, replied,
                   clock, env>>

\* insert of the items of raw_cart_data; an error is thrown and the catch
\* answers 200
W8Items ==
  \E i \in DOMAIN hs :
    /\ hs[i].pc = "items"
    /\ LET o == hs[i].o
           rows == [k \in 1..Len(hs[i].cart) |->
                      [order_id |-> o, item_id |-> hs[i].cart[k].item,
                       qty |-> hs[i].cart[k].qty, price |-> hs[i].cart[k].price]]
       IN \/ /\ InsertItemsOk(o, rows)
             /\ NoFail
             /\ order_items' = [order_items EXCEPT ![o] = @ \o rows]
             /\ Reply(i, 200)
          \/ /\ \/ ~InsertItemsOk(o, rows) /\ NoFail
                \/ Fails
             /\ hs' = [hs EXCEPT ![i].pc = "done", ![i].resp = 200, ![i].err = TRUE]
             /\ UNCHANGED order_items
    /\ UNCHANGED <<orders, pending_orders, payments, cf_orders, co, replied,
                   clock, env>>

\* every other status is written to the order as it came; an error is logged
W8Mark ==
  \E i \in DOMAIN hs :
    /\ hs[i].pc = "mark"
    /\ \/ /\ NoFail
          /\ orders' = [orders EXCEPT ![hs[i].o] =
                IF @ = NoRow THEN @ ELSE Row([@[1] EXCEPT !.status = hs[i].status])]
       \/ Fails /\ UNCHANGED orders
    /\ Reply(i, 200)
    /\ UNCHANGED <<order_items, pending_orders, payments, cf_orders, co, replied,
                   clock, env>>

Steps8 ==
  \/ C8InsertOrder
  \/ C8CreateSession
  \/ W8Select
  \/ W8Update
  \/ W8Items
  \/ W8Mark

\* requests one after the other, the rejected ones included
Spec008Seq == SnapInit /\ [][W8Reject \/ W8Accept(TRUE) \/ Steps8]_vars

\* the handlers of the verified requests, interleaved
Spec008 == SnapInit /\ [][W8Accept(FALSE) \/ Steps8]_vars

----------------------------------------------------------------------------
(* Pre-recorded revision: an order without its cart *)

\* update({ status: 'Failed: Missing Cart Data' }).eq('id', order_id), whose
\* result is not read, and the 200 that follows
W8MissingCart ==
  \E i \in DOMAIN hs :
    /\ hs[i].pc = "missingCart"
    /\ \/ /\ NoFail
          /\ orders' = [orders EXCEPT ![hs[i].o] =
                IF @ = NoRow THEN @
                ELSE Row([@[1] EXCEPT !.status = "Failed: Missing Cart Data"])]
       \/ Fails /\ UNCHANGED orders
    /\ Reply(i, 200)
    /\ UNCHANGED <<order_items, pending_orders, payments, cf_orders, co, replied,
                   clock, env>>

\* The orders table is older than this revision: the first revision of
\* src/index.js recorded an order as 'Pending Payment' without raw_cart_data
\* and inserted its line items at once.  The store is empty, or holds such
\* an order, which the gateway knows; an absent raw_cart_data reads as <<>>,
\* the test of the handler being the same for null, a non-array and [].
Legacy8Init ==
  \/ SnapInit
  \/ /\ orders = [o \in OrderIds |->
                    Row([status |-> "Pending Payment", payment_id |-> Null,
                         total_amount |-> 100, raw_cart_data |-> <<>>])]
     /\ order_items = [o \in OrderIds |->
                         <<[order_id |-> o, item_id |-> LineA.item,
                            qty |-> LineA.qty, price |-> LineA.price]>>]
     /\ cf_orders = [o \in OrderIds |-> <<LineA>>]
     /\ co = [o \in OrderIds |-> [pc |-> "done", cart |-> <<LineA>>]]
     /\ pending_orders = [o \in OrderIds |-> NoRow]
     /\ payments = [p \in SnapPaymentIds |-> 0]
     /\ hs = <<>> /\ replied = <<>> /\ nfail = 0 /\ clock = 1
     /\ env \in [webhook_secret : {TRUE}, items_unique : BOOLEAN]

Next008Legacy == W8Accept(FALSE) \/ Steps8 \/ W8MissingCart

Spec008Legacy == Legacy8Init /\ [][Next008Legacy]_vars

\* C34: the handler of a verified success notification that found the order
\* 'Pending Payment' without a cart inserts no order_items row, sets the
\* status to 'Failed: Missing Cart Data' and answers 200; and the order,
\* once so marked, is moved to 'Preparing' by no step.
C34_MissingCartMarkedFailed ==
  [][/\ \A i \in DOMAIN hs :
          (StepOf(i) /\ hs[i].pc = "missingCart")
            => /\ order_items' = order_items
               /\ orders'[hs[i].o][1].status = "Failed: Missing Cart Data"
               /\ hs'[i].pc = "done" /\ hs'[i].resp = 200
     /\ \A o \in OrderIds :
          (orders[o] # NoRow /\ orders[o][1].status = "Failed: Missing Cart Data")
            => orders'[o][1].status # "Preparing"]_vars

----------------------------------------------------------------------------
(* Claims on the pre-recorded revision *)

\* delivery i of a success notification moved the order to 'Preparing' and
\* its insert of the line items failed
Interrupted8(i) == Done(i) /\ W8Paid(hs[i].status) /\ hs[i].rows = 1 /\ hs[i].err

\* C12: when a delivery set the order to 'Preparing' and its order_items
\* insert failed, with no other store operation failing, a later delivery of
\* the same success notification leaves the order with the line items of
\* its stored cart.
C12_InterruptedRepaired ==
  \A i, j \in DOMAIN hs :
    (i < j /\ hs[i].req = hs[j].req /\ Interrupted8(i) /\ Done(j) /\ nfail = 1)
      => Len(order_items[hs[j].o]) = Len(cf_orders[hs[j].o])

\* C36: when two deliveries of the same success notification have run, in
\* whatever interleaving, for an order that was 'Pending Payment', and no
\* store operation has failed, each line of the order's cart is in
\* order_items exactly once.
C36_ConcurrentItemsOnce ==
  \A i, j \in DOMAIN hs :
    (/\ i # j /\ hs[i].req = hs[j].req /\ W8Paid(hs[i].status)
     /\ Done(i) /\ Done(j)
     /\ nfail = 0
     /\ orders[hs[i].o] # NoRow /\ orders[hs[i].o][1].raw_cart_data # <<>>)
      => \A k \in DOMAIN cf_orders[hs[i].o] :
           Cardinality(RowsOf(hs[i].o, cf_orders[hs[i].o][k])) = 1

\* C14: no step of the handler of a verified notification whose status is
\* neither a success nor a failure token changes the orders row or the
\* order_items rows of the order.
C14_OtherStatusNoWrite ==
  [][\A i \in DOMAIN hs :
       (StepOf(i) /\ hs[i].status = "ACTIVE")
         => orders' = orders /\ order_items' = order_items]_vars

\* C19: a delivery of a verified success notification during which the
\* status update or the order_items insert failed is answered with a 5xx
\* status.
C19_WriteFailureIs5xx ==
  \A i \in DOMAIN hs :
    (Done(i) /\ W8Paid(hs[i].status) /\ hs[i].err) => hs[i].resp >= 500

====
